---------------------------- MODULE Spec2Model ----------------------------
(***************************************************************************)
(* SIAB application deployer (src/app-deployer/backend/app-deployer-api.py) *)
(*                                                                         *)
(* The module holds the pure functions of the deployer as operators        *)
(* (detect_content_type, parse_docker_compose, check_prebuilt_image,       *)
(* create_deployment_from_image) and the HTTP handlers as step machines    *)
(* over the control plane's stored objects.                                *)
(*                                                                         *)
(* Texts are sequences of lines; a line is a string of a fixed alphabet    *)
(* whose lower-casing, substrings and regex matches are tabulated below.   *)
(***************************************************************************)
EXTENDS Integers, Sequences, FiniteSets, TLC

VARIABLES
    call,       \* pure-function specifications: the call under evaluation
    ret,        \* pure-function specifications: its outcome, or Pending
    cluster,    \* the objects the control plane stores (the vault's secrets too)
    pc,         \* where the request handler stands
    req,        \* the request under way
    local,      \* the handler's local variables
    resp,       \* the last response
    log,        \* the upstream calls of the request under way, in order
    faults,     \* upstream faults so far
    submissions,\* requests received so far; the wall clock
    history,    \* the requests answered so far, each with the objects stored then
    waiting     \* the handler threads that are not running, each with its context

vars ==
    <<call, ret, cluster, pc, req, local, resp, log, faults, submissions, history, waiting>>
handler_vars ==
    <<cluster, pc, req, local, resp, log, faults, submissions, history, waiting>>

Pending == [pending |-> TRUE]
NoCall == [fn |-> "none"]
NoRequest == [handler |-> "none"]
NoResponse == [status |-> 0]
NoLocals == [none |-> TRUE]

\* The handlers at rest, for the specifications of the pure functions
HandlersIdle ==
    /\ cluster = {}
    /\ pc = "idle"
    /\ req = NoRequest
    /\ local = NoLocals
    /\ resp = NoResponse
    /\ log = <<>>
    /\ faults = 0
    /\ submissions = 0
    /\ history = <<>>
    /\ waiting = <<>>

\* Sequences over S of length 0..n
SeqUpTo(S, n) == UNION {[1..k -> S] : k \in 0..n}

(***************************************************************************)
(* detect_content_type                                                     *)
(***************************************************************************)

\* Longest content, in lines
MaxContentLines == 3

JsonManifestLine == "{\"apiVersion\": \"v1\", \"kind\": \"Service\"}"
JsonObjectLine == "{\"name\": \"x\"}"
JsonStringLine == "\"abc\""
JsonMarkerStringLine == "\"apiVersion kind\""
JsonArrayLine == "[1]"
JsonMarkerArrayLine == "[\"apiVersion\", \"kind\"]"

JsonLines ==
    {JsonManifestLine, JsonObjectLine, "5", "null", "true", JsonStringLine,
     JsonMarkerStringLine, JsonArrayLine, JsonMarkerArrayLine}

ContentLines ==
    {"apiVersion: v1", "kind: Deployment", "KIND: Service", "services:",
     "services: {web: {image: nginx}}",
     "image: nginx", "build: .", "FROM nginx", "copied from ",
     "appVersion: 1.0", "name: my-chart", "hello"} \cup JsonLines

FileNames == {"", "Docker-Compose.yml", "compose.yaml", "Dockerfile"}

\* str.lower() of one line
LowerLine(l) ==
    CASE l = "apiVersion: v1" -> "apiversion: v1"
      [] l = "kind: Deployment" -> "kind: deployment"
      [] l = "KIND: Service" -> "kind: service"
      [] l = "FROM nginx" -> "from nginx"
      [] l = "appVersion: 1.0" -> "appversion: 1.0"
      [] l = JsonManifestLine -> "{\"apiversion\": \"v1\", \"kind\": \"service\"}"
      [] l = JsonMarkerStringLine -> "\"apiversion kind\""
      [] l = JsonMarkerArrayLine -> "[\"apiversion\", \"kind\"]"
      [] l = "Docker-Compose.yml" -> "docker-compose.yml"
      [] l = "Dockerfile" -> "dockerfile"
      [] OTHER -> l

\* str.lower() of a text
Lower(content) == [i \in DOMAIN content |-> LowerLine(content[i])]

\* The markers that are substrings of a (lower-cased) line.  In the JSON lines a
\* quote stands between the key and its colon, so none holds "apiversion:" or "kind:".
SubstringsOf(l) ==
    CASE l = "apiversion: v1" -> {"apiversion:"}
      [] l \in {"kind: deployment", "kind: service"} -> {"kind:"}
      [] l = "services:" -> {"services:"}
      [] l = "services: {web: {image: nginx}}" -> {"services:", "image:"}
      [] l = "image: nginx" -> {"image:"}
      [] l = "build: ." -> {"build:"}
      [] l \in {"from nginx", "copied from "} -> {"from "}
      [] l = "appversion: 1.0" -> {"appversion:"}
      [] l = "name: my-chart" -> {"name:"}
      [] l = "docker-compose.yml" -> {"docker-compose", "compose.y"}
      [] l = "compose.yaml" -> {"compose.y"}
      [] OTHER -> {}

\* marker in text  (Python's substring test; no marker spans a line break)
Contains(text, marker) == \E i \in DOMAIN text : marker \in SubstringsOf(text[i])

\* re.search(r'FROM\s+([^\s\n]+)', content, re.IGNORECASE) finds a match:
\* "FROM nginx" matches within its line; in "copied from " the \s+ runs over the
\* line break, so it matches exactly when a later line follows.
FromMatch(content) ==
    \E i \in DOMAIN content :
        \/ content[i] = "FROM nginx"
        \/ content[i] = "copied from " /\ i < Len(content)

\* json.loads(content): a text of one JSON line decodes, anything else is a
\* JSONDecodeError (empty text, extra data, or no JSON at all).
JsonValue(l) ==
    CASE l = JsonManifestLine -> [t |-> "object", has |-> {"apiVersion", "kind"}]
      [] l = JsonObjectLine -> [t |-> "object", has |-> {"name"}]
      [] l = "5" -> [t |-> "number", has |-> {}]
      [] l = "null" -> [t |-> "null", has |-> {}]
      [] l = "true" -> [t |-> "bool", has |-> {}]
      [] l = JsonStringLine -> [t |-> "string", has |-> {}]
      [] l = JsonMarkerStringLine -> [t |-> "string", has |-> {"apiVersion", "kind"}]
      [] l = JsonArrayLine -> [t |-> "array", has |-> {}]
      [] l = JsonMarkerArrayLine -> [t |-> "array", has |-> {"apiVersion", "kind"}]

json_loads(content) ==
    IF Len(content) = 1 /\ content[1] \in JsonLines
    THEN JsonValue(content[1])
    ELSE [t |-> "JSONDecodeError", has |-> {}]

\* key in value: a TypeError for a value that is no container
PyInRaises(v) == v.t \in {"number", "null", "bool"}
PyIn(key, v) == key \in v.has
\* value['kind']: only an object can be indexed by a string
PyIndexRaises(v) == v.t # "object"

Returned(type) == [raised |-> FALSE, type |-> type]
Raised(exc) == [raised |-> TRUE, type |-> exc]

\* The last two steps of detect_content_type: the JSON fallback, then unknown.
detect_json(content) ==
    LET json_content == json_loads(content) IN
    IF json_content.t = "JSONDecodeError" THEN Returned("unknown")
    ELSE IF PyInRaises(json_content) THEN Raised("TypeError")
    ELSE IF PyIn("apiVersion", json_content) /\ PyIn("kind", json_content)
         THEN IF PyIndexRaises(json_content) THEN Raised("TypeError")
              ELSE Returned("manifest")
         ELSE Returned("unknown")

detect_content_type(content, filename) ==
    LET lower == Lower(content)
        fname == <<LowerLine(filename)>>
    IN
    IF Contains(lower, "apiversion:") /\ Contains(lower, "kind:")
    THEN Returned("manifest")
    ELSE IF \/ Contains(lower, "services:")
               /\ (Contains(lower, "image:") \/ Contains(lower, "build:"))
            \/ Contains(fname, "docker-compose")
            \/ Contains(fname, "compose.y")
    THEN Returned("compose")
    ELSE IF Contains(lower, "from ") /\ FromMatch(content)
    THEN Returned("dockerfile")
    ELSE IF /\ Contains(lower, "apiversion:")
            /\ Contains(lower, "appversion:")
            /\ Contains(lower, "name:")
    THEN Returned("helm")
    ELSE detect_json(content)

ClassifyInputs ==
    [fn : {"detect_content_type"},
     content : SeqUpTo(ContentLines, MaxContentLines),
     filename : FileNames]

InitClassify ==
    /\ HandlersIdle
    /\ call \in ClassifyInputs
    /\ ret = Pending

DetectContentType ==
    /\ call.fn = "detect_content_type"
    /\ ret = Pending
    /\ ret' = detect_content_type(call.content, call.filename)
    /\ UNCHANGED <<call, handler_vars>>

NextClassify == DetectContentType

SpecClassify == InitClassify /\ [][NextClassify]_vars

\* The signatures of the claimed detection order, over the whole text
ManifestSignature(c) ==
    Contains(Lower(c.content), "apiversion:") /\ Contains(Lower(c.content), "kind:")
ComposeSignature(c) ==
    \/ /\ Contains(Lower(c.content), "services:")
       /\ \E m \in {"image:", "build:"} : Contains(Lower(c.content), m)
    \/ \E m \in {"docker-compose", "compose.y"} : Contains(<<LowerLine(c.filename)>>, m)
BuildSignature(c) == Contains(Lower(c.content), "from ") /\ FromMatch(c.content)
ChartSignature(c) ==
    \A m \in {"apiversion:", "appversion:", "name:"} : Contains(Lower(c.content), m)
JsonManifestSignature(c) ==
    /\ Len(c.content) = 1
    /\ c.content[1] \in JsonLines
    /\ JsonValue(c.content[1]).t = "object"
    /\ {"apiVersion", "kind"} \subseteq JsonValue(c.content[1]).has

FirstMatch(c) ==
    CASE ManifestSignature(c) -> "manifest"
      [] ~ManifestSignature(c) /\ ComposeSignature(c) -> "compose"
      [] ~ManifestSignature(c) /\ ~ComposeSignature(c) /\ BuildSignature(c) -> "dockerfile"
      [] ~ManifestSignature(c) /\ ~ComposeSignature(c) /\ ~BuildSignature(c)
            /\ ChartSignature(c) -> "helm"
      [] ~ManifestSignature(c) /\ ~ComposeSignature(c) /\ ~BuildSignature(c)
            /\ ~ChartSignature(c) /\ JsonManifestSignature(c) -> "manifest"
      [] OTHER -> "unknown"

Classified == call.fn = "detect_content_type" /\ ret # Pending

\* C6: classify returns, for every text, exactly the format tag of the first
\* signature that matches in the order manifest > compose > build recipe > chart >
\* JSON manifest > unknown.
C6_FirstMatchDecides == Classified => ret = Returned(FirstMatch(call))

\* C7: classify never raises, whatever the text: it always returns a result.
C7_ClassifyNeverRaises == Classified => ~ret.raised

(***************************************************************************)
(* parse_docker_compose                                                    *)
(*                                                                         *)
(* The input is the document as yaml.safe_load returns it: nothing (an     *)
(* empty text) or a mapping whose services keep their order.  A port entry *)
(* is a string (a sequence of its tokens), an integer or a mapping.        *)
(* Environment and volume entries change neither the number of resources   *)
(* nor the ports and are left out.                                         *)
(***************************************************************************)

\* Most services in one compose document
MaxServices == 2
\* Most port entries in one compose document, over all its services
MaxPortEntries == 2

Absent == -1        \* a key the mapping does not hold
NoImage == ""       \* no image key (None)
NoNamespace == ""   \* metadata without a namespace key

\* The key of the i-th service of a document
ServiceNameAt(i) == <<"web", "db", "api", "cache", "worker">>[i]

StrPort(s) == [form |-> "str", s |-> s, n |-> Absent, published |-> Absent, target |-> Absent]
IntPort(n) == [form |-> "int", s |-> <<>>, n |-> n, published |-> Absent, target |-> Absent]
DictPort(p, t) == [form |-> "dict", s |-> <<>>, n |-> Absent, published |-> p, target |-> t]

PortEntries ==
    {StrPort(<<"8080", ":", "80">>),                        \* "8080:80"
     StrPort(<<"8443", ":", "5432", "/", "tcp">>),          \* "8443:5432/tcp"
     StrPort(<<"3000">>),                                   \* "3000"
     StrPort(<<"127.0.0.1", ":", "8080", ":", "80">>),      \* "127.0.0.1:8080:80"
     IntPort(5432),                                         \* 5432
     DictPort(Absent, 80),                                  \* {target: 80}
     DictPort(9000, 6379)}                                  \* {published: 9000, target: 6379}

\* str.split(sep)
RECURSIVE Split(_, _)
Split(s, sep) ==
    IF \A i \in DOMAIN s : s[i] # sep
    THEN <<s>>
    ELSE LET i == CHOOSE j \in DOMAIN s : s[j] = sep /\ \A k \in 1..(j - 1) : s[k] # sep
         IN <<SubSeq(s, 1, i - 1)>> \o Split(SubSeq(s, i + 1, Len(s)), sep)

\* int(text): the value of a decimal literal, a ValueError for anything else
IsDecimal(s) == Len(s) = 1 /\ s[1] \in {"80", "3000", "5432", "8080", "8443"}
int(s) ==
    CASE s[1] = "80" -> 80
      [] s[1] = "3000" -> 3000
      [] s[1] = "5432" -> 5432
      [] s[1] = "8080" -> 8080
      [] s[1] = "8443" -> 8443

PortOk(h, c) == [raised |-> FALSE, host_port |-> h, container_port |-> c]
PortError == [raised |-> TRUE, host_port |-> Absent, container_port |-> Absent]

\* One round of the port loop: (host_port, container_port) of an entry
parse_port(port) ==
    IF port.form = "str" THEN
        LET parts == Split(port.s, ":") IN
        IF Len(parts) >= 2 THEN
            LET c == Split(parts[2], "/")[1] IN
            IF IsDecimal(parts[1]) /\ IsDecimal(c)
            THEN PortOk(int(parts[1]), int(c)) ELSE PortError
        ELSE
            LET c == Split(parts[1], "/")[1] IN
            IF IsDecimal(c) THEN PortOk(int(c), int(c)) ELSE PortError
    ELSE IF port.form = "dict" THEN
        PortOk(IF port.published # Absent THEN port.published
               ELSE IF port.target # Absent THEN port.target ELSE 80,
               IF port.target # Absent THEN port.target ELSE 80)
    ELSE PortOk(port.n, port.n)

web_ports == {80, 443, 8080, 8000, 3000, 5000, 9000, 8443}

\* The service is left out: it has a build directive and no image
SkipsService(service_config) == service_config.image = NoImage /\ service_config.build

ComposeDeployment(service_config, base_name) ==
    LET parsed == [i \in DOMAIN service_config.ports |-> parse_port(service_config.ports[i])]
        container_ports == [i \in DOMAIN parsed |-> parsed[i].container_port]
    IN [kind |-> "Deployment",
        name |-> service_config.name,
        namespace |-> NoNamespace,
        labels |-> ("app" :> service_config.name) @@ ("deployed-by" :> "siab-deployer")
                   @@ ("compose-project" :> base_name),
        spec |-> [replicas |-> 1,
                  image |-> IF service_config.image = NoImage THEN "nginx:latest"
                            ELSE service_config.image,
                  containerPorts |-> IF container_ports # <<>> THEN container_ports
                                     ELSE <<80>>]]

\* Mutant: the service publishes the container port instead of the host port
ServicePorts_ContainerPortOnly(service_config) ==
    [i \in DOMAIN service_config.ports |->
        [port |-> parse_port(service_config.ports[i]).container_port,
         targetPort |-> parse_port(service_config.ports[i]).container_port]]

ServicePorts(service_config) ==
    [i \in DOMAIN service_config.ports |->
        [port |-> parse_port(service_config.ports[i]).host_port,
         targetPort |-> parse_port(service_config.ports[i]).container_port]]

ComposeService(service_config, base_name) ==
    LET service_ports == ServicePorts(service_config) IN
    [kind |-> "Service",
     name |-> service_config.name,
     namespace |-> NoNamespace,
     labels |-> ("app" :> service_config.name) @@ ("compose-project" :> base_name),
     spec |-> [ports |-> IF service_ports # <<>> THEN service_ports
                         ELSE <<[port |-> 80, targetPort |-> 80]>>]]

\* Mutant: a Service object only for a service that declares ports
ServiceManifests_OnlyWithPorts(service_config, base_name) ==
    IF SkipsService(service_config) THEN <<>>
    ELSE <<ComposeDeployment(service_config, base_name)>>
         \o (IF ServicePorts(service_config) # <<>>
             THEN <<ComposeService(service_config, base_name)>> ELSE <<>>)

\* The manifests one service adds
ServiceManifests(service_config, base_name) ==
    LET service_ports == ServicePorts(service_config) IN
    IF SkipsService(service_config) THEN <<>>
    ELSE <<ComposeDeployment(service_config, base_name)>>
         \o (IF service_ports # <<>> \/ service_config.ports = <<>>
             THEN <<ComposeService(service_config, base_name)>> ELSE <<>>)

\* The services_info entry one service adds, if any
ServiceInfo(service_config, services) ==
    LET service_ports == ServicePorts(service_config)
        exposed_port == IF service_ports # <<>> THEN service_ports[1].port ELSE 80
        checked == IF service_ports # <<>> THEN service_ports
                   ELSE <<[port |-> 80, targetPort |-> 80]>>
    IN
    IF SkipsService(service_config) THEN <<>>
    ELSE IF ~(service_ports # <<>> \/ service_config.ports = <<>>) THEN <<>>
    ELSE IF \E i \in DOMAIN checked :
                checked[i].targetPort \in web_ports \/ checked[i].port \in web_ports
    THEN <<[name |-> service_config.name,
            port |-> exposed_port,
            is_primary |-> service_config.name = services[1].name]>>
    ELSE <<>>

RECURSIVE Flatten(_)
Flatten(ss) == IF ss = <<>> THEN <<>> ELSE Head(ss) \o Flatten(Tail(ss))

ComposeRaised == [raised |-> TRUE, manifests |-> <<>>, services_info |-> <<>>]

\* A port entry of a service that is not left out cannot be converted
PortsRaise(services) ==
    \E i \in DOMAIN services :
        /\ ~SkipsService(services[i])
        /\ \E j \in DOMAIN services[i].ports : parse_port(services[i].ports[j]).raised

parse_docker_compose(document, services, base_name) ==
    IF document = "empty" THEN ComposeRaised         \* None has no .get
    ELSE IF PortsRaise(services) THEN ComposeRaised  \* logged, then raised again
    ELSE [raised |-> FALSE,
          manifests |->
              Flatten([i \in DOMAIN services |-> ServiceManifests(services[i], base_name)]),
          services_info |->
              Flatten([i \in DOMAIN services |-> ServiceInfo(services[i], services)])]

ServiceConfigs(i, k) ==
    [name : {ServiceNameAt(i)}, image : {NoImage, "postgres:15"}, build : BOOLEAN,
     ports : [1..k -> PortEntries]]

\* The service lists from the i-th service on that hold at most n port entries
RECURSIVE ComposeServices(_, _)
ComposeServices(i, n) ==
    {<<>>} \cup
    (IF i > MaxServices THEN {}
     ELSE UNION {{<<svc>> \o rest : svc \in ServiceConfigs(i, k),
                                   rest \in ComposeServices(i + 1, n - k)} : k \in 0..n})

ComposeInputs ==
    [fn : {"parse_docker_compose"}, document : {"mapping"},
     services : ComposeServices(1, MaxPortEntries), base_name : {"shop"}]
    \cup
    [fn : {"parse_docker_compose"}, document : {"empty"},
     services : {<<>>}, base_name : {"shop"}]

InitCompose ==
    /\ HandlersIdle
    /\ call \in ComposeInputs
    /\ ret = Pending

ParseDockerCompose ==
    /\ call.fn = "parse_docker_compose"
    /\ ret = Pending
    /\ ret' = parse_docker_compose(call.document, call.services, call.base_name)
    /\ UNCHANGED <<call, handler_vars>>

NextCompose == ParseDockerCompose

SpecCompose == InitCompose /\ [][NextCompose]_vars

Translated == call.fn = "parse_docker_compose" /\ ret # Pending /\ ~ret.raised

\* A service the translator can translate: it names an image or has no build directive
Translatable(service_config) == service_config.image # NoImage \/ ~service_config.build

ManifestsOf(kind, name) ==
    {i \in DOMAIN ret.manifests :
        ret.manifests[i].kind = kind /\ ret.manifests[i].name = name}

ClaimedPorts(entry) ==
    CASE entry = StrPort(<<"8080", ":", "80">>) -> <<8080, 80>>
      [] entry = StrPort(<<"8443", ":", "5432", "/", "tcp">>) -> <<8443, 5432>>
      [] entry = StrPort(<<"3000">>) -> <<3000, 3000>>
      [] entry = IntPort(5432) -> <<5432, 5432>>
      [] entry = DictPort(Absent, 80) -> <<80, 80>>
      [] entry = DictPort(9000, 6379) -> <<9000, 6379>>

TheManifest(kind, name) ==
    ret.manifests[CHOOSE i \in DOMAIN ret.manifests :
                     ret.manifests[i].kind = kind /\ ret.manifests[i].name = name]

\* C9: every port entry gives the workload its container port and the service the
\* host port as port and the container port as targetPort; a service without
\* ports gets port 80 on both sides.
C9_PortParsing ==
    Translated =>
        \A i \in DOMAIN call.services :
            LET svc == call.services[i]
                dep == TheManifest("Deployment", svc.name)
                srv == TheManifest("Service", svc.name)
            IN Translatable(svc) =>
                /\ ManifestsOf("Deployment", svc.name) # {}
                /\ ManifestsOf("Service", svc.name) # {}
                /\ svc.ports = <<>> =>
                      /\ dep.spec.containerPorts = <<80>>
                      /\ srv.spec.ports = <<[port |-> 80, targetPort |-> 80]>>
                /\ svc.ports # <<>> =>
                      /\ Len(dep.spec.containerPorts) = Len(svc.ports)
                      /\ Len(srv.spec.ports) = Len(svc.ports)
                      /\ \A j \in DOMAIN svc.ports :
                            /\ dep.spec.containerPorts[j] = ClaimedPorts(svc.ports[j])[2]
                            /\ srv.spec.ports[j].targetPort = ClaimedPorts(svc.ports[j])[2]
                            /\ srv.spec.ports[j].port = ClaimedPorts(svc.ports[j])[1]

\* C9 witness: a translated service with the entries "8443:5432/tcp" and
\* {target: 80}, next to a translated service without ports.
C9_Witness ==
    /\ Translated
    /\ \E i, j \in DOMAIN call.services :
          /\ Translatable(call.services[i])
          /\ call.services[i].ports
               = <<StrPort(<<"8443", ":", "5432", "/", "tcp">>), DictPort(Absent, 80)>>
          /\ Translatable(call.services[j])
          /\ call.services[j].ports = <<>>
          /\ TheManifest("Service", call.services[i].name).spec.ports[1].port = 8443
          /\ TheManifest("Service", call.services[j].name).spec.ports[1].port = 80

(***************************************************************************)
(* check_prebuilt_image                                                    *)
(*                                                                         *)
(* A build recipe is a sequence of lines and a line a sequence of tokens   *)
(* (words, " ", "/", ":"); repo_info is absent or holds org and repo, the  *)
(* repo as its tokens.                                                     *)
(***************************************************************************)

\* Longest build recipe, in lines
MaxRecipeLines == 3

RecipeLines ==
    {<<"FROM", " ", "python", ":", "3.11-slim">>,
     <<"FROM", " ", "nginx", ":", "alpine">>,
     <<"FROM", " ", "redis">>,
     <<"from", " ", "myorg", "/", "tool", ":", "1">>,
     <<"FROM", " ", "ghcr.io", "/", "someorg", "/", "someapp", ":", "v1.0">>,
     <<"FROM", " ", "Bitnami", "/", "MongoDB-Sharded">>,
     <<"FROM", " ", "php", ":", "8.2-apache">>,
     <<"RUN", " ", "pip", " ", "install", " ", "flask">>,
     <<"COPY", " ", ".", " ", "/app">>,
     <<"#", " ", "see", " ", "ghcr.io", "/", "foo", "/", "bar">>,
     <<>>}

NoRepoInfo == [given |-> FALSE, org |-> "", repo |-> <<>>]
RepoInfos ==
    {NoRepoInfo} \cup
    [given : {TRUE}, org : {"linuxserver", "LinuxServer-Labs", "someorg"},
     repo : {<<"docker-", "plex">>, <<"docker-", "wireshark">>, <<"docker-", "code-server">>,
             <<"docker-">>, <<>>}]

\* str.lower() of a token
LowerToken(t) ==
    CASE t = "FROM" -> "from"
      [] t = "Bitnami" -> "bitnami"
      [] t = "MongoDB-Sharded" -> "mongodb-sharded"
      [] t = "LinuxServer-Labs" -> "linuxserver-labs"
      [] OTHER -> t

RECURSIVE Join(_)
Join(tokens) == IF tokens = <<>> THEN "" ELSE Head(tokens) \o Join(Tail(tokens))

\* The tokens of line from position i up to the first token of stop, or the end
RECURSIVE RunFrom(_, _, _)
RunFrom(line, i, stop) ==
    IF i > Len(line) \/ line[i] \in stop THEN <<>>
    ELSE <<line[i]>> \o RunFrom(line, i + 1, stop)

\* The words of the allow-list and of the publisher that are substrings of a token
WordsIn(t) ==
    CASE t = "nginx" -> {"nginx"}
      [] t = "redis" -> {"redis"}
      [] t = "mongodb-sharded" -> {"mongodb", "mongo"}
      [] t = "8.2-apache" -> {"apache"}
      [] t = "linuxserver" -> {"linuxserver"}
      [] t = "linuxserver-labs" -> {"linuxserver"}
      [] OTHER -> {}

direct_use_images ==
    {"nginx", "redis", "mysql", "mariadb", "postgres", "mongodb", "mongo",
     "httpd", "apache", "traefik", "caddy", "haproxy", "varnish",
     "elasticsearch", "kibana", "logstash", "grafana", "prometheus",
     "jenkins", "gitlab", "gitea", "drone", "sonarqube",
     "wordpress", "drupal", "joomla", "ghost", "nextcloud",
     "rabbitmq", "nats", "kafka", "zookeeper", "consul", "vault",
     "minio", "registry", "portainer", "adminer", "phpmyadmin",
     "busybox", "hello-world"}

\* port_map of the linuxserver branch
linuxserver_port_map ==
    [nextcloud |-> 80, nginx |-> 80, swag |-> 443, heimdall |-> 80, mariadb |-> 3306,
     postgres |-> 5432, plex |-> 32400, jellyfin |-> 8096, emby |-> 8096,
     sonarr |-> 8989, radarr |-> 7878, lidarr |-> 8686, prowlarr |-> 9696,
     qbittorrent |-> 8080, transmission |-> 9091, webtop |-> 3000, firefox |-> 3000,
     chromium |-> 3000] @@ ("code-server" :> 8443)

\* port_map of the base-image branch
base_image_port_map ==
    [nginx |-> 80, httpd |-> 80, apache |-> 80, caddy |-> 80, traefik |-> 80,
     haproxy |-> 80, varnish |-> 80, redis |-> 6379, mysql |-> 3306, mariadb |-> 3306,
     postgres |-> 5432, mongodb |-> 27017, mongo |-> 27017, elasticsearch |-> 9200,
     kibana |-> 5601, grafana |-> 3000, prometheus |-> 9090, jenkins |-> 8080,
     gitlab |-> 80, gitea |-> 3000, nextcloud |-> 80, wordpress |-> 80,
     rabbitmq |-> 5672, minio |-> 9000, registry |-> 5000, portainer |-> 9000,
     adminer |-> 8080, phpmyadmin |-> 80]

\* Mutant: a key the table lacks gets the generic fallback 80
Get_GenericFallback(map, key, default) == IF key \in DOMAIN map THEN map[key] ELSE 80

\* dict.get(key, default)
Get(map, key, default) == IF key \in DOMAIN map THEN map[key] ELSE default

Image(image, port) == [image |-> image, port |-> port]
NoneNone == [image |-> NoImage, port |-> Absent]

\* repo_info.get('repo', '').replace('docker-', '')
RepoName(repo_info) == Join(SelectSeq(repo_info.repo, LAMBDA t : t # "docker-"))

\* repo_info and 'linuxserver' in repo_info.get('org', '').lower()
IsLinuxserver(repo_info) ==
    repo_info.given /\ "linuxserver" \in WordsIn(LowerToken(repo_info.org))

\* re.search(r'ghcr\.io/([^/\s]+)/([^:\s]+)', text): the positions (line, token)
\* where a reference starts
GhcrMatches(content) ==
    {p \in {<<l, i>> : l \in DOMAIN content, i \in 1..MaxRecipeLines * 9} :
        LET line == content[p[1]]
            i == p[2]
        IN /\ i + 4 <= Len(line)
           /\ line[i] = "ghcr.io" /\ line[i + 1] = "/"
           /\ line[i + 2] \notin {"/", " ", ":"}
           /\ line[i + 3] = "/"
           /\ line[i + 4] \notin {" ", ":"}}

\* The first match in text order
FirstOf(matches) ==
    CHOOSE p \in matches :
        \A q \in matches : p[1] < q[1] \/ (p[1] = q[1] /\ p[2] <= q[2])

\* f"ghcr.io/{group(1)}/{group(2)}:latest"
GhcrImage(content) ==
    LET p == FirstOf(GhcrMatches(content))
        line == content[p[1]]
    IN "ghcr.io/" \o line[p[2] + 2] \o "/"
         \o Join(RunFrom(line, p[2] + 4, {" ", ":"})) \o ":latest"

\* re.search(r'FROM\s+([^\s\n]+)', text, re.IGNORECASE): where the directive starts
FromMatches(content) ==
    {p \in {<<l, i>> : l \in DOMAIN content, i \in 1..MaxRecipeLines * 9} :
        LET line == content[p[1]]
            i == p[2]
        IN /\ i + 2 <= Len(line)
           /\ LowerToken(line[i]) = "from"
           /\ line[i + 1] = " "
           /\ line[i + 2] # " "}

\* from_match.group(1), as tokens
BaseImageTokens(content) ==
    LET p == FirstOf(FromMatches(content))
    IN RunFrom(content[p[1]], p[2] + 2, {" "})

\* any(app in base_lower for app in direct_use_images)
IsDirectUse(base) ==
    \E i \in DOMAIN base : WordsIn(LowerToken(base[i])) \cap direct_use_images # {}

\* base_lower.split(':')[0].split('/')[-1]
ImageName(base) ==
    LET lower == [i \in DOMAIN base |-> LowerToken(base[i])]
        path == Split(Split(lower, ":")[1], "/")
    IN Join(path[Len(path)])

\* The lines that are neither blank nor a comment
InstructionLines(content) == SelectSeq(content, LAMBDA l : l # <<>> /\ l[1] # "#")

\* The branch from the FROM line on
from_image(content) ==
    LET base == BaseImageTokens(content) IN
    IF FromMatches(content) = {} THEN NoneNone
    ELSE IF IsDirectUse(base) \/ \E i \in DOMAIN base : base[i] = "/"
    THEN Image(Join(base), Get(base_image_port_map, ImageName(base), 80))
    ELSE IF Len(InstructionLines(content)) <= 2
    THEN Image(Join(base), 80)
    ELSE NoneNone

\* Mutant: the registry reference of the recipe is tried before the publisher
check_prebuilt_image_GhcrFirst(dockerfile_content, repo_info) ==
    IF GhcrMatches(dockerfile_content) # {}
    THEN Image(GhcrImage(dockerfile_content), 8080)
    ELSE IF IsLinuxserver(repo_info) /\ RepoName(repo_info) # ""
    THEN Image("lscr.io/linuxserver/" \o RepoName(repo_info) \o ":latest",
               Get(linuxserver_port_map, RepoName(repo_info), 3000))
    ELSE from_image(dockerfile_content)

check_prebuilt_image(dockerfile_content, repo_info) ==
    IF IsLinuxserver(repo_info) /\ RepoName(repo_info) # ""
    THEN Image("lscr.io/linuxserver/" \o RepoName(repo_info) \o ":latest",
               Get(linuxserver_port_map, RepoName(repo_info), 3000))
    ELSE IF GhcrMatches(dockerfile_content) # {}
    THEN Image(GhcrImage(dockerfile_content), 8080)
    ELSE from_image(dockerfile_content)

ResolveInputs ==
    [fn : {"check_prebuilt_image"},
     dockerfile_content : SeqUpTo(RecipeLines, MaxRecipeLines),
     repo_info : RepoInfos]

InitResolve ==
    /\ HandlersIdle
    /\ call \in ResolveInputs
    /\ ret = Pending

CheckPrebuiltImage ==
    /\ call.fn = "check_prebuilt_image"
    /\ ret = Pending
    /\ ret' = check_prebuilt_image(call.dockerfile_content, call.repo_info)
    /\ UNCHANGED <<call, handler_vars>>

NextResolve == CheckPrebuiltImage

SpecResolve == InitResolve /\ [][NextResolve]_vars

Resolved == call.fn = "check_prebuilt_image" /\ ret # Pending

\* The four rules of the claim
KnownPublisher(c) ==
    /\ c.repo_info.given
    /\ c.repo_info.org \in {"linuxserver", "LinuxServer-Labs"}
    /\ \E i \in DOMAIN c.repo_info.repo : c.repo_info.repo[i] # "docker-"
RegistryReference(c) ==
    \E l \in DOMAIN c.dockerfile_content :
        \E i \in DOMAIN c.dockerfile_content[l] : c.dockerfile_content[l][i] = "ghcr.io"
AllowListedBase(c) ==
    /\ FromMatches(c.dockerfile_content) # {}
    /\ Join(BaseImageTokens(c.dockerfile_content))
         \in {"nginx:alpine", "redis", "Bitnami/MongoDB-Sharded"}
ShortRecipe(c) ==
    /\ FromMatches(c.dockerfile_content) # {}
    /\ Len(InstructionLines(c.dockerfile_content)) <= 2

\* C10: the first rule that applies, in the order publisher > registry reference >
\* allow-listed base image > short recipe, decides the result, and (None, None)
\* is returned only when no rule applies.
C10_FirstRuleDecides ==
    Resolved =>
        LET c == call
            base == Join(BaseImageTokens(c.dockerfile_content))
        IN
        /\ KnownPublisher(c) =>
              ret.image = "lscr.io/linuxserver/" \o RepoName(c.repo_info) \o ":latest"
        /\ (~KnownPublisher(c) /\ RegistryReference(c)) =>
              /\ ret.image \in {"ghcr.io/someorg/someapp:latest", "ghcr.io/foo/bar:latest"}
              /\ ret.port = 8080
        /\ (~KnownPublisher(c) /\ ~RegistryReference(c) /\ AllowListedBase(c)) =>
              /\ ret.image = base
              /\ ret.port = (CASE base = "redis" -> 6379 [] OTHER -> 80)
        /\ (~KnownPublisher(c) /\ ~RegistryReference(c) /\ ~AllowListedBase(c)
              /\ ShortRecipe(c)) =>
              ret = Image(base, 80)
        /\ ret = NoneNone =>
              ~(KnownPublisher(c) \/ RegistryReference(c) \/ AllowListedBase(c)
                  \/ ShortRecipe(c))

\* C10 witness: a known publisher identity with a recipe that holds a
\* registry-qualified reference has resolved to the publisher's image.
C10_Witness ==
    /\ Resolved
    /\ KnownPublisher(call)
    /\ RegistryReference(call)
    /\ ret = Image("lscr.io/linuxserver/plex:latest", 32400)

\* The base image is a bare language image: its repository is python or php
BareBase(c) ==
    /\ FromMatches(c.dockerfile_content) # {}
    /\ BaseImageTokens(c.dockerfile_content)[1] \in {"python", "php"}
    /\ \A i \in DOMAIN BaseImageTokens(c.dockerfile_content) :
          BaseImageTokens(c.dockerfile_content)[i] # "/"

\* More than one instruction beyond the base-image line
LongRecipe(c) == Len(InstructionLines(c.dockerfile_content)) > 2

\* C11: a recipe with no known publisher, no registry-qualified reference, a bare
\* OS or language base image and more than one instruction beyond the base-image
\* line resolves to (None, None), the signal that the image must be built.
C11_MustBuild ==
    (Resolved /\ ~KnownPublisher(call) /\ ~RegistryReference(call)
       /\ BareBase(call) /\ LongRecipe(call))
    => ret = NoneNone

MaxSubmissions == 2
\* Most upstream faults (a call that fails though the control plane could serve it)
MaxFaults == 1

SIAB_DOMAIN == "siab.local"

NoLabels == <<>>
NoSpec == <<>>

Obj(kind, name, namespace, labels, spec) ==
    [kind |-> kind, name |-> name, namespace |-> namespace, labels |-> labels, spec |-> spec]

Key(o) == <<o.kind, o.name, o.namespace>>

Stored(cl, key) == {o \in cl : Key(o) = key}

\* The control plane merges a declaration into the object of the same kind, name
\* and namespace: declared fields are set, the others are kept.
Merge(old, new) ==
    [new EXCEPT !.labels = new.labels @@ old.labels, !.spec = new.spec @@ old.spec]

Apply(cl, o) ==
    IF Stored(cl, Key(o)) = {} THEN cl \cup {o}
    ELSE {IF Key(x) = Key(o) THEN Merge(x, o) ELSE x : x \in cl}

RECURSIVE ApplyAll(_, _)
ApplyAll(cl, objs) ==
    IF objs = <<>> THEN cl ELSE ApplyAll(Apply(cl, Head(objs)), Tail(objs))

\* The namespaces of the platform exist before any request
PlatformNamespaces == {"default", "istio-system", "siab-system"}
InitialCluster == {Obj("Namespace", ns, NoNamespace, NoLabels, NoSpec) : ns \in PlatformNamespaces}

\* An object can be stored when it is a namespace or its namespace exists
CanStore(cl, o) ==
    o.kind = "Namespace" \/ Stored(cl, <<"Namespace", o.namespace, NoNamespace>>) # {}

Success == [success |-> TRUE, stderr |-> ""]
Failure(stderr) == [success |-> FALSE, stderr |-> stderr]
FaultMessages == {"Unable to connect to the server", "forbidden"}
Faults == IF faults < MaxFaults THEN {Failure(e) : e \in FaultMessages} ELSE {}

\* The outcomes of kubectl apply of a manifest
ApplyResults(cl, objs) ==
    (IF \A i \in DOMAIN objs : CanStore(cl, objs[i])
     THEN {Success} ELSE {Failure("namespaces not found")})
    \cup Faults

\* The outcomes of kubectl patch of an object
PatchResults(cl, key) ==
    (IF Stored(cl, key) # {} THEN {Success} ELSE {Failure("not found")}) \cup Faults

\* kubectl patch --type=strategic: the patched fields are merged into the object
Patch(cl, key, fields) ==
    {IF Key(x) = key THEN [x EXCEPT !.spec = fields @@ x.spec] ELSE x : x \in cl}

\* What a call leaves behind in the handler's bookkeeping
Called(step, result) ==
    /\ log' = Append(log, [step |-> step, success |-> result.success,
                            stderr |-> result.stderr])
    /\ faults' = IF result.stderr \in FaultMessages THEN faults + 1 ELSE faults

(***************************************************************************)
(* ensure_namespace, create_pvc, create_ingress_route                      *)
(***************************************************************************)

NamespaceManifest(namespace) ==
    Obj("Namespace", namespace, NoNamespace, "istio-injection" :> "enabled", NoSpec)

PvcManifest(name, namespace, size) ==
    Obj("PersistentVolumeClaim", name \o "-data", namespace, NoLabels,
        [storageClassName |-> "longhorn", storage |-> size])

gateway_map(gateway) ==
    CASE gateway = "user" -> "user-gateway"
      [] gateway = "admin" -> "admin-gateway"
      [] OTHER -> "user-gateway"

VirtualService(namespace, service_name, service_port, hostname, gateway) ==
    Obj("VirtualService", service_name, "istio-system",
        ("siab.local/gateway" :> gateway) @@ ("siab.local/app" :> service_name),
        [hosts |-> IF hostname = "" THEN service_name \o "." \o SIAB_DOMAIN ELSE hostname,
         gateways |-> gateway_map(gateway),
         host |-> service_name \o "." \o namespace \o ".svc.cluster.local",
         port |-> service_port])

(***************************************************************************)
(* create_deployment_from_image                                            *)
(***************************************************************************)

\* Mutant: the workload is named by generate_deployment_id, name and time
DeploymentManifest_DeploymentId(name, image, namespace, port, env_vars) ==
    Obj("Deployment", name \o "-t" \o ToString(submissions), namespace,
        ("app" :> name) @@ ("deployed-by" :> "siab-deployer"),
        [replicas |-> 1, selector |-> name, container |-> name, image |-> image,
         imagePullPolicy |-> "Always", containerPorts |-> <<port>>, env |-> env_vars,
         fsGroup |-> 1000])

DeploymentManifest(name, image, namespace, port, env_vars) ==
    Obj("Deployment", name, namespace,
        ("app" :> name) @@ ("deployed-by" :> "siab-deployer"),
        [replicas |-> 1, selector |-> name, container |-> name, image |-> image,
         imagePullPolicy |-> "Always", containerPorts |-> <<port>>, env |-> env_vars,
         fsGroup |-> 1000])

\* Mutant: the service targets port 80 whatever the container port is
ServiceManifest_TargetsPort80(name, namespace, port) ==
    Obj("Service", name, namespace, NoLabels,
        [selector |-> name, ports |-> <<[port |-> 80, targetPort |-> 80]>>])

ServiceManifest(name, namespace, port) ==
    Obj("Service", name, namespace, NoLabels,
        [selector |-> name, ports |-> <<[port |-> 80, targetPort |-> port]>>])

create_deployment_from_image(name, image, namespace, port, env_vars) ==
    <<DeploymentManifest(name, image, namespace, port, env_vars),
      ServiceManifest(name, namespace, port)>>

linuxserver_env ==
    <<[name |-> "PUID", value |-> "1000"], [name |-> "PGID", value |-> "1000"],
      [name |-> "TZ", value |-> "UTC"]>>

SynthesizeInputs ==
    [fn : {"create_deployment_from_image"},
     name : {"web", "grafana", "my-app"},
     image : {"nginx:alpine", "lscr.io/linuxserver/plex:latest", "localhost/web:latest"},
     namespace : {"default", "apps"},
     port : {80, 3000, 8080, 32400},
     env_vars : {<<>>, linuxserver_env}]

InitSynthesize ==
    /\ HandlersIdle
    /\ call \in SynthesizeInputs
    /\ ret = Pending

CreateDeploymentFromImage ==
    /\ call.fn = "create_deployment_from_image"
    /\ ret = Pending
    /\ ret' = [manifests |-> create_deployment_from_image(
                                 call.name, call.image, call.namespace, call.port,
                                 call.env_vars),
               error |-> ""]
    /\ UNCHANGED <<call, handler_vars>>

NextSynthesize == CreateDeploymentFromImage

SpecSynthesize == InitSynthesize /\ [][NextSynthesize]_vars

Synthesized == call.fn = "create_deployment_from_image" /\ ret # Pending

OfKind(manifests, kind) == {i \in DOMAIN manifests : manifests[i].kind = kind}

\* C13: the synthesizer returns exactly one workload and exactly one service,
\* both named name in namespace; the workload declares one replica and the given
\* container port, and the service targets that container port.
C13_OneWorkloadOneService ==
    Synthesized =>
        /\ Len(ret.manifests) = 2
        /\ Cardinality(OfKind(ret.manifests, "Deployment")) = 1
        /\ Cardinality(OfKind(ret.manifests, "Service")) = 1
        /\ \A i \in DOMAIN ret.manifests :
              /\ ret.manifests[i].name = call.name
              /\ ret.manifests[i].namespace = call.namespace
        /\ \A i \in OfKind(ret.manifests, "Deployment") :
              /\ ret.manifests[i].spec.replicas = 1
              /\ ret.manifests[i].spec.containerPorts = <<call.port>>
              /\ ret.manifests[i].spec.image = call.image
        /\ \A i \in OfKind(ret.manifests, "Service") :
              /\ Len(ret.manifests[i].spec.ports) = 1
              /\ ret.manifests[i].spec.ports[1].targetPort = call.port
              /\ "type" \notin DOMAIN ret.manifests[i].spec

\* C13 witness: a workload and a service were synthesized for a container port
\* that is not the service port
C13_Witness ==
    /\ Synthesized
    /\ call.port = 32400
    /\ ret.manifests[2].spec.ports = <<[port |-> 80, targetPort |-> 32400]>>

(***************************************************************************)
(* The requests of POST /api/deploy/smart                                  *)
(***************************************************************************)

\* The characters of the names a request may carry
NameChars(name) ==
    CASE name = "web" -> <<"w", "e", "b">>
      [] name = "grafana" -> <<"g", "r", "a", "f", "a", "n", "a">>
      [] name = "shop" -> <<"s", "h", "o", "p">>
      [] name = "blog" -> <<"b", "l", "o", "g">>
      [] name = "a" -> <<"a">>
      [] name = "a\n" -> <<"a", "\n">>
      [] name = "my-app\n" -> <<"m", "y", "-", "a", "p", "p", "\n">>
      [] name = "MyApp" -> <<"M", "y", "A", "p", "p">>
      [] name = "Invalid_Name" ->
            <<"I", "n", "v", "a", "l", "i", "d", "_", "N", "a", "m", "e">>
      [] name = "-web" -> <<"-", "w", "e", "b">>
      [] name = "web-" -> <<"w", "e", "b", "-">>
      [] name = "a\nb" -> <<"a", "\n", "b">>
      [] name = "" -> <<>>

ValidNames == {"web", "grafana"}
OtherNames ==
    {"a", "a\n", "my-app\n", "MyApp", "Invalid_Name", "-web", "web-", "a\nb", ""}

\* [a-z0-9]
IsLowerAlnum(ch) ==
    ch \in {"a", "b", "d", "e", "f", "g", "h", "i", "l", "m", "n", "o", "p", "r", "s",
            "v", "w", "y"}

\* $ : at the end of the string, or just before a newline that ends the string
AtEnd(chars, consumed) ==
    \/ consumed = Len(chars)
    \/ consumed = Len(chars) - 1 /\ chars[Len(chars)] = "\n"

\* re.match(r'^[a-z0-9][a-z0-9-]*[a-z0-9]$|^[a-z0-9]$', name)
NameMatches(name) ==
    LET chars == NameChars(name) IN
    \/ \E n \in 2..Len(chars) :
          /\ IsLowerAlnum(chars[1])
          /\ \A i \in 2..(n - 1) : IsLowerAlnum(chars[i]) \/ chars[i] = "-"
          /\ IsLowerAlnum(chars[n])
          /\ AtEnd(chars, n)
    \/ /\ Len(chars) >= 1
       /\ IsLowerAlnum(chars[1])
       /\ AtEnd(chars, 1)

Namespaces == {"default", "apps"}

\* integrations: storage is the requested size or "", hostname the override or ""
NoIntegrations ==
    [storage |-> "", minio |-> FALSE, ingress |-> FALSE, keycloak |-> FALSE,
     istio |-> TRUE, generate_credentials |-> FALSE, hostname |-> ""]
AllIntegrations ==
    [storage |-> "5Gi", minio |-> TRUE, ingress |-> TRUE, keycloak |-> TRUE,
     istio |-> TRUE, generate_credentials |-> TRUE, hostname |-> ""]
IntegrationConfigs ==
    {NoIntegrations, AllIntegrations,
     [NoIntegrations EXCEPT !.storage = "5Gi"],
     [NoIntegrations EXCEPT !.minio = TRUE],
     [NoIntegrations EXCEPT !.ingress = TRUE],
     [NoIntegrations EXCEPT !.ingress = TRUE, !.hostname = "shop.example.com"],
     [NoIntegrations EXCEPT !.keycloak = TRUE],
     [NoIntegrations EXCEPT !.generate_credentials = TRUE],
     [NoIntegrations EXCEPT !.istio = FALSE]}

\* The content a request carries (by file name) with the type the client names
Sources ==
    {[type |-> "manifest", content |-> "k8s.yaml"],
     [type |-> "unknown", content |-> "k8s.yaml"],
     [type |-> "compose", content |-> "docker-compose.yml"],
     [type |-> "compose", content |-> "docker-compose.ports.yml"],
     [type |-> "compose", content |-> "docker-compose.build.yml"],
     [type |-> "dockerfile", content |-> "Dockerfile.nginx"],
     [type |-> "dockerfile", content |-> "Dockerfile.python"],
     [type |-> "helm", content |-> "Chart.yaml"]}

SmartRequest(name, namespace, source, integrations, gateway) ==
    [handler |-> "smart", name |-> name, namespace |-> namespace,
     content |-> source.content, type |-> source.type,
     integrations |-> integrations, port |-> 80, gateway |-> gateway]

SmartRequests ==
    {SmartRequest("web", ns, src, i, "user") :
        ns \in Namespaces, src \in Sources, i \in IntegrationConfigs}
    \cup
    {SmartRequest("grafana", ns, src, i, "user") :
        ns \in Namespaces, src \in Sources,
        i \in {NoIntegrations, [NoIntegrations EXCEPT !.ingress = TRUE]}}
    \cup
    {SmartRequest("web", ns, src, i, "internal") :
        ns \in Namespaces, src \in Sources,
        i \in {c \in IntegrationConfigs : c.ingress}}
    \cup
    {SmartRequest("grafana", "siab-system", [type |-> "manifest", content |-> "k8s.yaml"],
                  NoIntegrations, "user")}
    \cup
    {SmartRequest(n, "default", [type |-> "manifest", content |-> c], NoIntegrations, "user") :
        n \in ValidNames \cup OtherNames, c \in {"", "k8s.yaml"}}

\* The objects of the manifest a client sends for its application
ManifestObjects(r) ==
    <<Obj("Deployment", r.name, r.namespace, "app" :> r.name,
          [replicas |-> 1, selector |-> r.name, container |-> r.name,
           image |-> "registry.local/app:1", containerPorts |-> <<r.port>>]),
      Obj("Service", r.name, r.namespace, "app" :> r.name,
          [selector |-> r.name, ports |-> <<[port |-> 80, targetPort |-> r.port]>>])>>

NoCredentials == [username |-> "", password |-> ""]

Response(status, success, error, access_url, credentials) ==
    [status |-> status, success |-> success, error |-> error,
     access_url |-> access_url, credentials |-> credentials]
ErrorResponse(status, error) == Response(status, FALSE, error, "", NoCredentials)

\* The handler returns: the response goes out and the request is over
Answer(r, response, cl) ==
    /\ resp' = response
    /\ pc' = "idle"
    /\ local' = NoLocals
    /\ history' = Append(history, [req |-> r, resp |-> response, cluster |-> cl])

(***************************************************************************)
(* smart_deploy: one action per upstream call                              *)
(***************************************************************************)

Passwords == {"pw-1", "pw-2"}
ClientSecrets == {"cs-1", "cs-2"}

apps_needing_credentials ==
    {"nextcloud", "wordpress", "gitea", "gitlab", "jenkins", "grafana", "minio",
     "portainer", "rancher", "harbor", "keycloak", "vault", "consul", "mysql",
     "postgres", "mariadb", "mongodb", "redis", "rabbitmq", "elasticsearch"}
oidc_apps == {"nextcloud", "gitea", "gitlab", "grafana", "portainer"}

\* The application words that are substrings of name.lower()
AppWordsIn(name) == IF name = "grafana" THEN {"grafana"} ELSE {}

needs_creds(r) ==
    AppWordsIn(r.name) \cap apps_needing_credentials # {} \/ r.integrations.generate_credentials

\* integrations.get('hostname') or f"{name}.{SIAB_DOMAIN}"
HostnameOf(r) ==
    IF r.integrations.hostname # "" THEN r.integrations.hostname
    ELSE r.name \o "." \o SIAB_DOMAIN

\* The integration steps in the order of the handler's text
Steps ==
    <<"create_pvc", "patch_storage", "minio_secret", "patch_minio", "ingress",
      "keycloak", "firewalld", "istio_dr", "istio_pa", "credentials", "store_credentials",
      "respond">>

Requested(step, r) ==
    CASE step \in {"create_pvc", "patch_storage"} -> r.integrations.storage # ""
      [] step \in {"minio_secret", "patch_minio"} -> r.integrations.minio
      [] step = "ingress" -> r.integrations.ingress
      [] step = "keycloak" -> r.integrations.keycloak
      [] step \in {"istio_dr", "istio_pa"} -> r.integrations.istio
      [] step \in {"credentials", "store_credentials"} -> needs_creds(r)
      [] OTHER -> TRUE

StepIndex(step) == IF \E i \in DOMAIN Steps : Steps[i] = step
                   THEN CHOOSE i \in DOMAIN Steps : Steps[i] = step ELSE 0

\* The next step the request asks for
NextStep(step, r) ==
    LET later == {i \in DOMAIN Steps : i > StepIndex(step) /\ Requested(Steps[i], r)}
    IN Steps[CHOOSE i \in later : \A j \in later : i <= j]

\* The first branch of the handler, by content type
PrimaryStep(r) ==
    CASE r.type = "manifest" -> "apply_content"
      [] r.type = "compose" -> "parse_compose"
      [] r.type = "dockerfile" -> "resolve_image"
      [] r.type = "helm" -> "helm_install"
      [] OTHER -> "apply_content"

SmartLocals(r) ==
    [manifests |-> <<>>, services_info |-> <<>>, next |-> 1,
     service_name |-> r.name, service_port |-> 80, access_url |-> "",
     admin_password |-> "", extra_info |-> [url |-> ""], credentials |-> NoCredentials]

\* The request arrives; name and content are validated before anything else
SmartDeploy(r) ==
    /\ pc = "idle"
    /\ submissions' = submissions + 1
    /\ req' = r
    /\ log' = <<>>
    /\ IF r.name = "" \/ r.content = ""
       THEN Answer(r, ErrorResponse(400, "Name and content are required"), cluster)
       ELSE IF ~NameMatches(r.name)
       THEN Answer(r, ErrorResponse(400, "Invalid name format"), cluster)
       ELSE /\ pc' = "ensure_namespace"
            /\ local' = SmartLocals(r)
            /\ resp' = NoResponse
            /\ history' = history
    /\ UNCHANGED <<call, ret, waiting, cluster, faults>>

\* A client submits a request, and submits the same request again
SmartReceive(r) ==
    /\ submissions < MaxSubmissions
    /\ req = NoRequest \/ r = req
    /\ SmartDeploy(r)

\* ensure_namespace(namespace); its result is not looked at
EnsureNamespace ==
    /\ pc = "ensure_namespace"
    /\ \E result \in ApplyResults(cluster, <<NamespaceManifest(req.namespace)>>) :
          /\ cluster' = IF result.success
                        THEN Apply(cluster, NamespaceManifest(req.namespace)) ELSE cluster
          /\ Called("ensure_namespace", result)
    /\ pc' = IF req.handler = "smart" THEN PrimaryStep(req)
             ELSE IF req.handler = "compose" THEN "compose_loop"
             ELSE IF req.storage_size # "" THEN "quick_pvc" ELSE "quick_deployment"
    /\ UNCHANGED <<call, ret, waiting, req, local, resp, submissions, history>>

\* content_type manifest, and the last branch: kubectl apply of the content
SmartApplyContent ==
    /\ pc = "apply_content"
    /\ \E result \in ApplyResults(cluster, ManifestObjects(req)) :
          /\ Called("apply_content", result)
          /\ IF result.success
             THEN /\ cluster' = ApplyAll(cluster, ManifestObjects(req))
                  /\ pc' = NextStep("primary", req)
                  /\ UNCHANGED <<local, resp, history>>
             ELSE /\ cluster' = cluster
                  /\ Answer(req, ErrorResponse(500, result.stderr), cluster)
    /\ UNCHANGED <<call, ret, waiting, req, submissions>>

HelmRelease(r) == Obj("HelmRelease", r.name, r.namespace, NoLabels, [chart |-> r.content])

\* helm install refuses a release name that is in use
HelmResults(cl, release) ==
    (IF ~CanStore(cl, release) THEN {Failure("namespaces not found")}
     ELSE IF Stored(cl, Key(release)) # {}
     THEN {Failure("cannot re-use a name that is still in use")}
     ELSE {Success})
    \cup Faults

\* content_type helm
SmartHelmInstall ==
    /\ pc = "helm_install"
    /\ \E result \in HelmResults(cluster, HelmRelease(req)) :
          /\ Called("helm_install", result)
          /\ IF result.success
             THEN /\ cluster' = Apply(cluster, HelmRelease(req))
                  /\ pc' = NextStep("primary", req)
                  /\ UNCHANGED <<local, resp, history>>
             ELSE /\ cluster' = cluster
                  /\ Answer(req, ErrorResponse(500, result.stderr), cluster)
    /\ UNCHANGED <<call, ret, waiting, req, submissions>>

\* Mutant: a failed apply of an integration object ends the request
ApplyStep_Aborting(step, obj) ==
    /\ pc = step
    /\ \E result \in ApplyResults(cluster, <<obj>>) :
          /\ Called(step, result)
          /\ IF result.success
             THEN /\ cluster' = Apply(cluster, obj)
                  /\ pc' = NextStep(step, req)
                  /\ UNCHANGED <<local, resp, history>>
             ELSE /\ cluster' = cluster
                  /\ Answer(req, ErrorResponse(500, result.stderr), cluster)
    /\ UNCHANGED <<call, ret, waiting, req, submissions>>

\* A best-effort kubectl apply of one object, then on to the step after `step`
ApplyStep(step, obj) ==
    /\ pc = step
    /\ \E result \in ApplyResults(cluster, <<obj>>) :
          /\ cluster' = IF result.success THEN Apply(cluster, obj) ELSE cluster
          /\ Called(step, result)
    /\ pc' = NextStep(step, req)
    /\ UNCHANGED <<call, ret, waiting, req, local, resp, submissions, history>>

\* A best-effort kubectl patch of the application's deployment
PatchStep(step, fields) ==
    /\ pc = step
    /\ \E result \in PatchResults(cluster, <<"Deployment", req.name, req.namespace>>) :
          /\ cluster' = IF result.success
                        THEN Patch(cluster, <<"Deployment", req.name, req.namespace>>, fields)
                        ELSE cluster
          /\ Called(step, result)
    /\ pc' = NextStep(step, req)
    /\ UNCHANGED <<call, ret, waiting, req, local, resp, submissions, history>>

SmartCreatePvc ==
    ApplyStep("create_pvc", PvcManifest(req.name, req.namespace, req.integrations.storage))

\* The patch that mounts the claim
StorageMount(name) ==
    [volumeMounts |-> {[name |-> "data", mountPath |-> "/data"]},
     volumes |-> {[name |-> "data", claimName |-> name \o "-data"]}]

SmartPatchStorage == PatchStep("patch_storage", StorageMount(req.name))

\* create_minio_bucket_secret: the root credentials are read from the minio
\* namespace without a check; a failed read leaves 'admin' and the empty password
\* Mutant: one secret name for every application of the namespace
MinioSecret_SharedName(name, namespace, user, password) ==
    Obj("Secret", "minio-credentials", namespace, NoLabels,
        [MINIO_ACCESS_KEY |-> user, MINIO_SECRET_KEY |-> password,
         MINIO_BUCKET |-> name])

MinioSecret(name, namespace, user, password) ==
    Obj("Secret", name \o "-minio", namespace, NoLabels,
        [MINIO_ACCESS_KEY |-> user, MINIO_SECRET_KEY |-> password,
         MINIO_BUCKET |-> name])

MinioRoot(read) ==
    IF read THEN [user |-> "minio-root", password |-> "minio-root-pw"]
    ELSE [user |-> "admin", password |-> ""]

SmartMinioSecret ==
    /\ pc = "minio_secret"
    /\ \E read \in {TRUE} \cup {b \in {FALSE} : faults < MaxFaults} :
       LET root == MinioRoot(read)
           secret == MinioSecret(req.name, req.namespace, root.user, root.password)
       IN \E result \in {r \in ApplyResults(cluster, <<secret>>) :
                            read \/ r.stderr \notin FaultMessages} :
             /\ cluster' = IF result.success THEN Apply(cluster, secret) ELSE cluster
             /\ log' = Append(log, [step |-> "minio_secret", success |-> result.success,
                                    stderr |-> result.stderr])
             /\ faults' = IF ~read \/ result.stderr \in FaultMessages
                          THEN faults + 1 ELSE faults
    /\ pc' = "patch_minio"
    /\ UNCHANGED <<call, ret, waiting, req, local, resp, submissions, history>>

\* The patch that injects the secret through the environment
MinioEnv(name) == [envFrom |-> {name \o "-minio"}]

SmartPatchMinio == PatchStep("patch_minio", MinioEnv(req.name))

\* create_ingress_route: no call at all for the internal gateway
SmartIngress ==
    /\ pc = "ingress"
    /\ LET vs == VirtualService(req.namespace, local.service_name, local.service_port,
                                HostnameOf(req), req.gateway)
       IN IF req.gateway = "internal"
          THEN UNCHANGED <<cluster, log, faults>>
          ELSE \E result \in ApplyResults(cluster, <<vs>>) :
                  /\ cluster' = IF result.success THEN Apply(cluster, vs) ELSE cluster
                  /\ Called("ingress", result)
    /\ local' = [local EXCEPT !.access_url = "https://" \o HostnameOf(req)]
    /\ pc' = NextStep("ingress", req)
    /\ UNCHANGED <<call, ret, waiting, req, resp, submissions, history>>

AuthorizationPolicy(name, namespace) ==
    Obj("AuthorizationPolicy", name \o "-auth", namespace, NoLabels,
        [selector |-> name, action |-> "CUSTOM", provider |-> "keycloak-auth"])

SmartKeycloak == ApplyStep("keycloak", AuthorizationPolicy(req.name, req.namespace))

\* configure_firewalld_for_app: commands on the host, the control plane is not touched
SmartFirewalld ==
    /\ pc = "firewalld"
    /\ Called("firewalld", Success)
    /\ pc' = NextStep("firewalld", req)
    /\ UNCHANGED <<call, ret, waiting, cluster, req, local, resp, submissions, history>>

\* configure_istio_for_app
DestinationRule(name, namespace) ==
    Obj("DestinationRule", name, namespace, NoLabels,
        [host |-> name \o "." \o namespace \o ".svc.cluster.local",
         maxConnections |-> 100, consecutive5xxErrors |-> 5])

PeerAuthentication(name, namespace) ==
    Obj("PeerAuthentication", name, namespace, NoLabels,
        [selector |-> name, mtls |-> "PERMISSIVE"])

SmartIstioDestinationRule ==
    ApplyStep("istio_dr", DestinationRule(req.name, req.namespace))

SmartIstioPeerAuthentication ==
    ApplyStep("istio_pa", PeerAuthentication(req.name, req.namespace))

\* base64.b64encode(v.encode()).decode()
b64encode(v) == "b64(" \o v \o ")"

\* datetime.now().isoformat() at the time of the submission
Now == "t" \o ToString(submissions)

NoClient == [client_id |-> "", client_secret |-> ""]

\* create_keycloak_client_for_app: (None, None) when the identity provider cannot
\* be reached, else the client id with a fresh secret
KeycloakClients(name) ==
    {NoClient} \cup {[client_id |-> "siab-app-" \o name, client_secret |-> cs] : cs \in ClientSecrets}

\* generate_password() and the OIDC client of the applications that support one
SmartCredentials ==
    /\ pc = "credentials"
    /\ \E password \in Passwords :
       \E client \in (IF AppWordsIn(req.name) \cap oidc_apps # {}
                      THEN KeycloakClients(req.name) ELSE {NoClient}) :
          local' = [local EXCEPT
                      !.admin_password = password,
                      !.extra_info =
                          IF client = NoClient THEN [url |-> "https://" \o HostnameOf(req)]
                          ELSE [url |-> "https://" \o HostnameOf(req),
                                oidc_client_id |-> client.client_id,
                                oidc_client_secret |-> client.client_secret]]
    /\ pc' = "store_credentials"
    /\ UNCHANGED <<call, ret, waiting, cluster, req, resp, log, faults, submissions, history>>

\* The Secret store_app_credentials declares
CredentialSecret(name, namespace, username, password, extra_info) ==
    LET secret_data == extra_info
                       @@ ("app-name" :> name) @@ ("app-namespace" :> namespace)
                       @@ [username |-> username, password |-> password, created |-> Now]
    IN Obj("Secret", "app-creds-" \o name, "siab-system",
           ("siab.local/credential-type" :> "app-credentials")
           @@ ("siab.local/app-name" :> name) @@ ("siab.local/app-namespace" :> namespace),
           [k \in DOMAIN secret_data |-> b64encode(secret_data[k])])

\* store_app_credentials; the response carries the credentials whatever its result
SmartStoreCredentials ==
    /\ pc = "store_credentials"
    /\ LET secret == CredentialSecret(req.name, req.namespace, "admin",
                                      local.admin_password, local.extra_info)
       IN \E result \in ApplyResults(cluster, <<secret>>) :
             /\ cluster' = IF result.success THEN Apply(cluster, secret) ELSE cluster
             /\ Called("store_credentials", result)
    /\ local' = [local EXCEPT
                    !.credentials = [username |-> "admin", password |-> local.admin_password]]
    /\ pc' = "respond"
    /\ UNCHANGED <<call, ret, waiting, req, resp, submissions, history>>

\* 'integrations' of the response: the flags of the request
IntegrationsReport(r) ==
    [istio |-> r.integrations.istio, ingress |-> r.integrations.ingress,
     keycloak |-> r.integrations.keycloak, storage |-> r.integrations.storage # "",
     minio |-> r.integrations.minio]

SmartRespond ==
    /\ pc = "respond"
    /\ req.handler = "smart"
    /\ Answer(req,
              [integrations |-> IntegrationsReport(req)]
              @@ Response(200, TRUE, "", local.access_url, local.credentials),
              cluster)
    /\ UNCHANGED <<call, ret, waiting, cluster, req, log, faults, submissions>>

(***************************************************************************)
(* smart_deploy: content_type compose                                      *)
(***************************************************************************)

\* The services of the compose files a request may carry
ComposeContent(content) ==
    IF content = "docker-compose.yml"
    THEN <<[name |-> "web", image |-> "nginx:alpine", build |-> FALSE,
            ports |-> <<StrPort(<<"8080", ":", "80">>)>>],
           [name |-> "db", image |-> "postgres:15", build |-> FALSE,
            ports |-> <<StrPort(<<"8443", ":", "5432", "/", "tcp">>)>>]>>
    ELSE IF content = "docker-compose.build.yml"
    THEN <<[name |-> "builder", image |-> NoImage, build |-> TRUE, ports |-> <<>>],
           [name |-> "api", image |-> "nginx:alpine", build |-> FALSE,
            ports |-> <<StrPort(<<"8080", ":", "80">>)>>]>>
    ELSE <<[name |-> "web", image |-> NoImage, build |-> FALSE,
            ports |-> <<StrPort(<<"127.0.0.1", ":", "8080", ":", "80">>)>>]>>

\* manifest['metadata']['namespace'] = namespace; labels['deployed-by'] = 'siab-deployer'
Stamp(manifest, namespace) ==
    [manifest EXCEPT !.namespace = namespace,
                     !.labels = ("deployed-by" :> "siab-deployer") @@ @]

\* The end of the compose branch: the first manifest names the main service
ComposeBranchEnds(locals) ==
    /\ local' = [locals EXCEPT
                    !.service_name = IF locals.manifests # <<>>
                                     THEN locals.manifests[1].name ELSE @,
                    !.next = 1]
    /\ pc' = NextStep("primary", req)

ComposeRoutes(locals) == req.integrations.ingress /\ locals.services_info # <<>>

\* parse_docker_compose(content, base_name=name); what it raises is answered with 500
SmartParseCompose ==
    /\ pc = "parse_compose"
    /\ LET compose_result ==
               parse_docker_compose("mapping", ComposeContent(req.content), req.name)
           locals == [local EXCEPT !.manifests = compose_result.manifests,
                                   !.services_info = compose_result.services_info]
       IN IF compose_result.raised
          THEN Answer(req, ErrorResponse(500, "invalid literal for int() with base 10"), cluster)
          ELSE /\ UNCHANGED <<resp, history>>
               /\ IF locals.manifests # <<>>
                  THEN local' = locals /\ pc' = "apply_compose"
                  ELSE ComposeBranchEnds(locals)
    /\ UNCHANGED <<call, ret, waiting, cluster, req, log, faults, submissions>>

\* One round of the loop over manifests: a failed apply is logged and the loop goes on
SmartApplyCompose ==
    /\ pc = "apply_compose"
    /\ LET manifest == Stamp(local.manifests[local.next], req.namespace)
           locals == [local EXCEPT !.next = @ + 1]
       IN /\ \E result \in ApplyResults(cluster, <<manifest>>) :
                /\ cluster' = IF result.success THEN Apply(cluster, manifest) ELSE cluster
                /\ Called("apply_compose", result)
          /\ IF local.next < Len(local.manifests)
             THEN local' = locals /\ pc' = "apply_compose"
             ELSE IF ComposeRoutes(local)
             THEN local' = [local EXCEPT !.next = 1] /\ pc' = "compose_routes"
             ELSE ComposeBranchEnds(local)
    /\ UNCHANGED <<call, ret, waiting, req, resp, submissions, history>>

\* One round of the loop over services_info: the route of a web-exposed service
SmartComposeRoute ==
    /\ pc = "compose_routes"
    /\ LET svc == local.services_info[local.next]
           hostname == IF svc.is_primary THEN HostnameOf(req)
                       ELSE svc.name \o "." \o SIAB_DOMAIN
           vs == VirtualService(req.namespace, svc.name, svc.port, hostname, req.gateway)
       IN IF req.gateway = "internal"
          THEN UNCHANGED <<cluster, log, faults>>
          ELSE \E result \in ApplyResults(cluster, <<vs>>) :
                  /\ cluster' = IF result.success THEN Apply(cluster, vs) ELSE cluster
                  /\ Called("compose_routes", result)
    /\ IF local.next < Len(local.services_info)
       THEN local' = [local EXCEPT !.next = @ + 1] /\ pc' = "compose_routes"
       ELSE ComposeBranchEnds(local)
    /\ UNCHANGED <<call, ret, waiting, req, resp, submissions, history>>

(***************************************************************************)
(* smart_deploy: content_type dockerfile (create_deployment_from_dockerfile)*)
(***************************************************************************)

\* The lines of the build recipes a request may carry
DockerfileContent(content) ==
    IF content = "Dockerfile.nginx"
    THEN <<<<"FROM", " ", "nginx", ":", "alpine">>, <<"COPY", " ", ".", " ", "/app">>>>
    ELSE <<<<"FROM", " ", "python", ":", "3.11-slim">>,
           <<"RUN", " ", "pip", " ", "install", " ", "flask">>,
           <<"COPY", " ", ".", " ", "/app">>>>

\* 'linuxserver' in prebuilt_image
IsLinuxserverImage(image) == image \in {"lscr.io/linuxserver/plex:latest"}

NoBuildTools ==
    "Cannot build Dockerfile: No container build tools available. "
    \o "Please either:\n"
    \o "1. Use a pre-built image from Docker Hub or GHCR\n"
    \o "2. Provide a Kubernetes manifest or docker-compose file\n"
    \o "3. Use the Quick Deploy with an existing image"
BuildFailed == "Build failed: error building at STEP 2"

\* (manifests, error) of create_deployment_from_dockerfile; which of buildah and
\* docker is installed and how the build ends are the host's
DockerfileResults(name, content, namespace, port, repo_info) ==
    LET prebuilt == check_prebuilt_image(DockerfileContent(content), repo_info) IN
    IF prebuilt.image # NoImage
    THEN {[manifests |-> create_deployment_from_image(
                             name, prebuilt.image, namespace,
                             IF prebuilt.port \notin {Absent, 0} THEN prebuilt.port ELSE port,
                             IF IsLinuxserverImage(prebuilt.image) THEN linuxserver_env ELSE <<>>),
           error |-> ""]}
    ELSE {[manifests |-> <<>>, error |-> NoBuildTools],
          [manifests |-> <<>>, error |-> BuildFailed],
          [manifests |-> create_deployment_from_image(
                             name, "localhost/" \o name \o ":latest", namespace, port, <<>>),
           error |-> ""]}

SmartResolveImage ==
    /\ pc = "resolve_image"
    /\ \E built \in DockerfileResults(req.name, req.content, req.namespace, req.port,
                                      NoRepoInfo) :
          IF built.error # ""
          THEN Answer(req, ErrorResponse(500, built.error), cluster)
          ELSE /\ local' = [local EXCEPT !.manifests = built.manifests]
               /\ pc' = "apply_built"
               /\ UNCHANGED <<resp, history>>
    /\ UNCHANGED <<call, ret, waiting, cluster, req, log, faults, submissions>>

\* One round of the loop over built_manifests: a failed apply ends the request
SmartApplyBuilt ==
    /\ pc = "apply_built"
    /\ LET manifest == local.manifests[local.next] IN
       \E result \in ApplyResults(cluster, <<manifest>>) :
          /\ Called("apply_built", result)
          /\ IF ~result.success
             THEN /\ cluster' = cluster
                  /\ Answer(req, ErrorResponse(500, result.stderr), cluster)
             ELSE /\ cluster' = Apply(cluster, manifest)
                  /\ UNCHANGED <<resp, history>>
                  /\ IF local.next < Len(local.manifests)
                     THEN local' = [local EXCEPT !.next = @ + 1] /\ pc' = "apply_built"
                     ELSE /\ local' = [local EXCEPT
                                          !.next = 1,
                                          !.service_port = local.manifests[2].spec.ports[1].port]
                          /\ pc' = NextStep("primary", req)
    /\ UNCHANGED <<call, ret, waiting, req, submissions>>

(***************************************************************************)
(* deploy_quick                                                            *)
(***************************************************************************)

QuickRequest(name, image, namespace, storage_size, expose, hostname, gateway) ==
    [handler |-> "quick", name |-> name, image |-> image, namespace |-> namespace,
     port |-> 80, replicas |-> 1, storage_size |-> storage_size, expose |-> expose,
     hostname |-> hostname, gateway |-> gateway]

QuickRequests ==
    {QuickRequest("web", "nginx:alpine", ns, size, FALSE, "", "user") :
        ns \in Namespaces, size \in {"", "5Gi"}}
    \cup
    {QuickRequest("web", "nginx:alpine", ns, size, TRUE, h, g) :
        ns \in Namespaces, size \in {"", "5Gi"}, h \in {"", "shop.example.com"},
        g \in {"user", "internal"}}
    \cup
    {QuickRequest("", "nginx:alpine", "default", "", FALSE, "", "user"),
     QuickRequest("web", "", "default", "", FALSE, "", "user")}

\* The deployment of deploy_quick, with the volume when storage is requested
QuickDeployment(r) ==
    Obj("Deployment", r.name, r.namespace,
        ("app" :> r.name) @@ ("deployed-by" :> "siab-deployer"),
        [replicas |-> r.replicas, selector |-> r.name, container |-> r.name,
         image |-> r.image, containerPorts |-> <<r.port>>, env |-> <<>>]
        @@ (IF r.storage_size # ""
            THEN [volumeMounts |-> {[name |-> "data", mountPath |-> "/data"]},
                  volumes |-> {[name |-> "data", claimName |-> r.name \o "-data"]}]
            ELSE <<>>))

QuickReceive(r) ==
    /\ pc = "idle"
    /\ submissions < MaxSubmissions
    /\ req = NoRequest \/ r = req
    /\ submissions' = submissions + 1
    /\ req' = r
    /\ log' = <<>>
    /\ IF r.name = "" \/ r.image = ""
       THEN Answer(r, ErrorResponse(400, "Name and image required"), cluster)
       ELSE /\ pc' = "ensure_namespace"
            /\ local' = NoLocals
            /\ resp' = NoResponse
            /\ history' = history
    /\ UNCHANGED <<call, ret, waiting, cluster, faults>>

\* create_pvc, before the deployment is applied; its result is not looked at
QuickCreatePvc ==
    /\ pc = "quick_pvc"
    /\ LET pvc == PvcManifest(req.name, req.namespace, req.storage_size) IN
       \E result \in ApplyResults(cluster, <<pvc>>) :
          /\ cluster' = IF result.success THEN Apply(cluster, pvc) ELSE cluster
          /\ Called("quick_pvc", result)
    /\ pc' = "quick_deployment"
    /\ UNCHANGED <<call, ret, waiting, req, local, resp, submissions, history>>

QuickApplyDeployment ==
    /\ pc = "quick_deployment"
    /\ \E result \in ApplyResults(cluster, <<QuickDeployment(req)>>) :
          /\ Called("quick_deployment", result)
          /\ IF result.success
             THEN /\ cluster' = Apply(cluster, QuickDeployment(req))
                  /\ pc' = "quick_service"
                  /\ UNCHANGED <<local, resp, history>>
             ELSE /\ cluster' = cluster
                  /\ Answer(req, ErrorResponse(500, result.stderr), cluster)
    /\ UNCHANGED <<call, ret, waiting, req, submissions>>

\* The service is applied and its result is not looked at
QuickApplyService ==
    /\ pc = "quick_service"
    /\ LET service == ServiceManifest(req.name, req.namespace, req.port) IN
       \E result \in ApplyResults(cluster, <<service>>) :
          /\ cluster' = IF result.success THEN Apply(cluster, service) ELSE cluster
          /\ Called("quick_service", result)
    /\ pc' = IF req.expose THEN "quick_ingress" ELSE "quick_respond"
    /\ UNCHANGED <<call, ret, waiting, req, local, resp, submissions, history>>

QuickIngress ==
    /\ pc = "quick_ingress"
    /\ LET vs == VirtualService(req.namespace, req.name, 80, req.hostname, req.gateway)
       IN IF req.gateway = "internal"
          THEN UNCHANGED <<cluster, log, faults>>
          ELSE \E result \in ApplyResults(cluster, <<vs>>) :
                  /\ cluster' = IF result.success THEN Apply(cluster, vs) ELSE cluster
                  /\ Called("quick_ingress", result)
    /\ pc' = "quick_respond"
    /\ UNCHANGED <<call, ret, waiting, req, local, resp, submissions, history>>

QuickRespond ==
    /\ pc = "quick_respond"
    /\ Answer(req,
              Response(200, TRUE, "",
                       IF ~req.expose THEN ""
                       ELSE "https://" \o (IF req.hostname # "" THEN req.hostname
                                           ELSE req.name \o "." \o SIAB_DOMAIN),
                       NoCredentials),
              cluster)
    /\ UNCHANGED <<call, ret, waiting, cluster, req, log, faults, submissions>>

(***************************************************************************)
(* deploy_compose                                                          *)
(***************************************************************************)

ComposeRequest(compose, namespace) ==
    [handler |-> "compose", compose |-> compose, namespace |-> namespace]

ComposeRequests ==
    {ComposeRequest(c, ns) :
        c \in {"", "docker-compose.yml", "docker-compose.ports.yml",
                "docker-compose.build.yml"},
        ns \in Namespaces}

\* for manifest in manifests: manifests is the dict parse_docker_compose returns,
\* and a dict is iterated by its keys
Iterate(compose_result) == <<"manifests", "services_info">>

TypeError == "'str' object does not support item assignment"

\* The compose text is translated (base_name None: 'default') before the namespace
\* is ensured; what the translation raises is answered with 500
DeployCompose(r) ==
    /\ pc = "idle"
    /\ submissions < MaxSubmissions
    /\ req = NoRequest \/ r = req
    /\ submissions' = submissions + 1
    /\ req' = r
    /\ log' = <<>>
    /\ LET manifests == parse_docker_compose("mapping", ComposeContent(r.compose), "default")
       IN IF r.compose = ""
          THEN Answer(r, ErrorResponse(400, "No compose file provided"), cluster)
          ELSE IF manifests.raised
          THEN Answer(r, ErrorResponse(500, "invalid literal for int() with base 10"), cluster)
          ELSE /\ pc' = "ensure_namespace"
               /\ local' = [manifests |-> manifests, next |-> 1, results |-> <<>>]
               /\ resp' = NoResponse
               /\ history' = history
    /\ UNCHANGED <<call, ret, waiting, cluster, faults>>

\* One round of the loop: an item that is a str has no 'metadata' to assign to
\* (TypeError, answered with 500); a manifest is stamped with the namespace and
\* applied, and after the last one the results are reported
DeployComposeLoop ==
    /\ pc = "compose_loop"
    /\ LET items == Iterate(local.manifests)
           manifest == items[local.next]
       IN IF manifest \in STRING
          THEN /\ Answer(req, ErrorResponse(500, TypeError), cluster)
               /\ UNCHANGED <<cluster, log, faults>>
          ELSE \E result \in ApplyResults(cluster, <<[manifest EXCEPT !.namespace = req.namespace]>>) :
                  LET results == Append(local.results, result.success)
                      all_success == \A i \in DOMAIN results : results[i]
                  IN /\ cluster' = IF result.success
                                   THEN Apply(cluster, [manifest EXCEPT !.namespace = req.namespace])
                                   ELSE cluster
                     /\ Called("compose_loop", result)
                     /\ IF local.next < Len(items)
                        THEN /\ local' = [local EXCEPT !.next = @ + 1, !.results = results]
                             /\ UNCHANGED <<pc, resp, history>>
                        ELSE Answer(req,
                                    Response(IF all_success THEN 200 ELSE 500, all_success,
                                             "", "", NoCredentials),
                                    cluster')
    /\ UNCHANGED <<call, ret, waiting, req, submissions>>

(***************************************************************************)
(* The deployer: requests are served one at a time                         *)
(***************************************************************************)

Init ==
    /\ call = NoCall
    /\ ret = Pending
    /\ cluster = InitialCluster
    /\ pc = "idle"
    /\ req = NoRequest
    /\ local = NoLocals
    /\ resp = NoResponse
    /\ log = <<>>
    /\ faults = 0
    /\ submissions = 0
    /\ history = <<>>
    /\ waiting = <<>>

Next ==
    \/ \E r \in SmartRequests : SmartReceive(r)
    \/ \E r \in QuickRequests : QuickReceive(r)
    \/ \E r \in ComposeRequests : DeployCompose(r)
    \/ DeployComposeLoop
    \/ EnsureNamespace
    \/ SmartApplyContent
    \/ SmartHelmInstall
    \/ SmartParseCompose
    \/ SmartApplyCompose
    \/ SmartComposeRoute
    \/ SmartResolveImage
    \/ SmartApplyBuilt
    \/ SmartCreatePvc
    \/ SmartPatchStorage
    \/ SmartMinioSecret
    \/ SmartPatchMinio
    \/ SmartIngress
    \/ SmartKeycloak
    \/ SmartFirewalld
    \/ SmartIstioDestinationRule
    \/ SmartIstioPeerAuthentication
    \/ SmartCredentials
    \/ SmartStoreCredentials
    \/ SmartRespond
    \/ QuickCreatePvc
    \/ QuickApplyDeployment
    \/ QuickApplyService
    \/ QuickIngress
    \/ QuickRespond

Spec == Init /\ [][Next]_vars

(***************************************************************************)
(* Properties of the deployer                                              *)
(***************************************************************************)

\* The answered requests of the behaviour so far, as pairs of an earlier and a
\* later one that carry the same request and were both answered with success
Resubmissions ==
    {p \in (DOMAIN history) \X (DOMAIN history) :
        /\ p[1] < p[2]
        /\ history[p[1]].req = history[p[2]].req
        /\ history[p[1]].resp.success
        /\ history[p[2]].resp.success}

\* C1: submitting the same deploy request twice in sequence, with no upstream
\* fault, leaves the control-plane objects and the stored credential record as
\* the first submission left them.
C1_ResubmissionConverges ==
    faults = 0 =>
        \A p \in Resubmissions : history[p[2]].cluster = history[p[1]].cluster

IsDockerfileRequest(r) == r.handler = "smart" /\ r.type = "dockerfile"

\* The workloads and the services of an application in a namespace
WorkloadsOf(cl, name, namespace) ==
    {o \in cl : o.kind = "Deployment" /\ o.namespace = namespace
                /\ "app" \in DOMAIN o.labels /\ o.labels["app"] = name}
ServicesOf(cl, name, namespace) ==
    {o \in cl : o.kind = "Service" /\ o.namespace = namespace /\ o.spec.selector = name}

\* C2: the workload and the service synthesized twice for the same name, image,
\* namespace and port and applied twice leave exactly one workload and exactly
\* one service of that name in that namespace.
C2_OneWorkloadOneService ==
    \A p \in Resubmissions :
        LET r == history[p[2]].req
            cl == history[p[2]].cluster
        IN IsDockerfileRequest(r) =>
              /\ Cardinality(WorkloadsOf(cl, r.name, r.namespace)) = 1
              /\ Cardinality(ServicesOf(cl, r.name, r.namespace)) = 1

C2_Witness ==
    /\ Resubmissions # {}
    /\ \E p \in Resubmissions :
          /\ IsDockerfileRequest(history[p[2]].req)
          /\ create_deployment_from_image(history[p[2]].req.name, "nginx:alpine",
                                          history[p[2]].req.namespace, 80, <<>>)[1]
                \in history[p[2]].cluster

\* The calls that declare the primary workload or service
PrimarySteps ==
    {"apply_content", "apply_compose", "apply_built", "helm_install",
     "quick_deployment", "quick_service"}

\* C3: a failed declaration of the primary workload or service is the last call
\* of the request, and the request is answered with a failure that carries the
\* upstream error message as it came.
C3_PrimaryFailureAborts ==
    \A i \in DOMAIN log :
        log[i].step \in PrimarySteps /\ ~log[i].success =>
            /\ i = Len(log)
            /\ pc = "idle"
            /\ resp.status = 500
            /\ resp.error = log[i].stderr

\* C4: when ensuring the namespace fails, no call declares anything afterwards.
C4_NamespaceFailureAborts ==
    \A i \in DOMAIN log :
        log[i].step = "ensure_namespace" /\ ~log[i].success => i = Len(log)

\* Made solely of lowercase letters, digits and hyphens, beginning and ending
\* with a letter or digit
WellFormedName(name) ==
    LET chars == NameChars(name) IN
    /\ chars # <<>>
    /\ \A i \in DOMAIN chars : IsLowerAlnum(chars[i]) \/ chars[i] = "-"
    /\ IsLowerAlnum(chars[1])
    /\ IsLowerAlnum(chars[Len(chars)])

\* C5: a smart deploy request that gets past validation carries content and a
\* well-formed name; every other request is answered 400 before any upstream call.
C5_RejectsBeforeAnyCall ==
    /\ pc # "idle" /\ req.handler = "smart" =>
          req.content # "" /\ WellFormedName(req.name)
    /\ \A i \in DOMAIN history :
          LET r == history[i].req IN
          r.handler = "smart" /\ (r.content = "" \/ ~WellFormedName(r.name)) =>
              /\ history[i].resp.status = 400
              /\ history[i].cluster = (IF i = 1 THEN InitialCluster
                                       ELSE history[i - 1].cluster)

\* The request is one whose objects are all synthesized by the deployer
SynthesizedRequest(r) == r.handler = "quick" \/ IsDockerfileRequest(r)

\* C14: every resource the deployer declares for an application carries the
\* label deployed-by=siab-deployer and the label app=<name>.
C14_EveryResourceLabelled ==
    SynthesizedRequest(req) =>
        \A o \in cluster :
            o.kind # "Namespace" =>
                /\ "deployed-by" \in DOMAIN o.labels
                /\ o.labels["deployed-by"] = "siab-deployer"
                /\ "app" \in DOMAIN o.labels
                /\ o.labels["app"] = req.name

\* The calls of the integration steps
IntegrationSteps ==
    {"create_pvc", "patch_storage", "minio_secret", "patch_minio", "ingress", "keycloak",
     "firewalld", "istio_dr", "istio_pa", "store_credentials", "quick_pvc", "quick_ingress"}

\* The integration steps of smart_deploy that call the control plane for request r
CallingSteps(r) ==
    {Steps[i] : i \in {j \in DOMAIN Steps : Requested(Steps[j], r)}}
    \ ({"credentials", "respond"} \cup (IF r.gateway = "internal" THEN {"ingress"} ELSE {}))

Logged(step) == \E i \in DOMAIN log : log[i].step = step

IntegrationOf(step) ==
    CASE step \in {"create_pvc", "patch_storage"} -> "storage"
      [] step \in {"minio_secret", "patch_minio"} -> "minio"
      [] step = "ingress" -> "ingress"
      [] step = "keycloak" -> "keycloak"
      [] step \in {"istio_dr", "istio_pa"} -> "istio"
      [] OTHER -> "none"

\* C16: in the response of a deploy, an integration whose control-plane call
\* failed is not reported as enabled or successful.
C16_FailedIntegrationReported ==
    (pc = "idle" /\ req.handler = "smart" /\ resp.status = 200) =>
        \A i \in DOMAIN log :
            (~log[i].success /\ IntegrationOf(log[i].step) # "none") =>
                ~resp.integrations[IntegrationOf(log[i].step)]

\* The credential records of the vault
CredentialRecords(cl) ==
    {o \in cl : /\ o.kind = "Secret"
                /\ "siab.local/credential-type" \in DOMAIN o.labels}

\* C17: when the response of a deploy holds a generated password, the vault
\* holds a record of the application with that password.
C17_PasswordIsStored ==
    (pc = "idle" /\ req.handler = "smart" /\ resp.status = 200
       /\ resp.credentials.password # "") =>
        \E o \in CredentialRecords(cluster) :
            /\ o.name = "app-creds-" \o req.name
            /\ o.spec.password = b64encode(resp.credentials.password)

\* C18: every stored credential record lives in a namespace other than the
\* namespace of the application it belongs to.
C18_VaultNamespaceDiffers ==
    \A o \in CredentialRecords(cluster) :
        o.namespace # o.labels["siab.local/app-namespace"]

(***************************************************************************)
(* get_app_credentials and GET /api/credentials/<name>                     *)
(***************************************************************************)

\* A value of a Secret whose bytes are not UTF-8 text (the byte 0xFF)
NotText == "/w=="

\* base64.b64decode(v).decode(): the text, or an exception for bytes that are
\* not text
Decodes(v) == v # NotText
b64decode(v) ==
    CASE v = b64encode("admin") -> "admin"
      [] v = b64encode("pw-1") -> "pw-1"
      [] v = b64encode("t1") -> "t1"
      [] v = b64encode("grafana") -> "grafana"
      [] v = b64encode("https://grafana.siab.local") -> "https://grafana.siab.local"

NoRecord == [found |-> FALSE]

\* What the vault may hold under app-creds-<name>: nothing, a Secret without
\* data, or a Secret whose values are text or not
StoredRecords ==
    {NoRecord, [found |-> TRUE, data |-> <<>>]}
    \cup
    {[found |-> TRUE, data |-> d] :
        d \in [username : {b64encode("admin"), NotText},
               password : {b64encode("pw-1"), NotText},
               created : {b64encode("t1"), NotText},
               url : {b64encode("https://grafana.siab.local"), NotText}]}

RetrieveInputs ==
    [fn : {"get_credentials"}, name : {"grafana", "web"}, stored : StoredRecords,
     get_fails : BOOLEAN]

None == [none |-> TRUE]

\* kubectl get secret app-creds-<name>; None when the call fails and None when
\* decoding raises
get_app_credentials(stored, get_fails) ==
    IF get_fails \/ ~stored.found THEN None
    ELSE IF \A k \in DOMAIN stored.data : Decodes(stored.data[k])
    THEN [k \in DOMAIN stored.data |-> b64decode(stored.data[k])]
    ELSE None

get_credentials(name, stored, get_fails) ==
    LET creds == get_app_credentials(stored, get_fails) IN
    IF creds # None /\ creds # <<>>
    THEN [status |-> 200, success |-> TRUE, credentials |-> creds, error |-> ""]
    ELSE [status |-> 404, success |-> FALSE, credentials |-> None,
          error |-> "No credentials found for " \o name]

InitRetrieve ==
    /\ HandlersIdle
    /\ call \in RetrieveInputs
    /\ ret = Pending

GetCredentials ==
    /\ call.fn = "get_credentials"
    /\ ret = Pending
    /\ ret' = get_credentials(call.name, call.stored, call.get_fails)
    /\ UNCHANGED <<call, handler_vars>>

NextRetrieve == GetCredentials

SpecRetrieve == InitRetrieve /\ [][NextRetrieve]_vars

Retrieved == call.fn = "get_credentials" /\ ret # Pending

\* The stored record has a value that does not decode
Malformed(stored) ==
    stored.found /\ \E k \in DOMAIN stored.data : ~Decodes(stored.data[k])

\* C19: retrieval returns the record with every field decoded, or notFound when
\* no record exists, or for a malformed record an error that is not notFound.
C19_DecodeErrorIsNotNotFound ==
    Retrieved =>
        /\ ret.status = 200 =>
              /\ call.stored.found
              /\ DOMAIN ret.credentials = DOMAIN call.stored.data
              /\ \A k \in DOMAIN ret.credentials :
                    b64encode(ret.credentials[k]) = call.stored.data[k]
        /\ (~call.get_fails /\ Malformed(call.stored)) =>
              ret # get_credentials(call.name, NoRecord, FALSE)

\* The calls that declare the base workload
WorkloadSteps ==
    {"apply_content", "apply_compose", "apply_built", "helm_install", "quick_deployment"}

\* C20: the persistent claim of a request with storage is declared only after
\* the declaration of the base workload has succeeded.
C20_ClaimAfterWorkload ==
    \A i \in DOMAIN log :
        log[i].step \in {"create_pvc", "quick_pvc"} =>
            \E j \in 1..(i - 1) : log[j].step \in WorkloadSteps /\ log[j].success


(***************************************************************************)
(* Errors, deletion, order and exposure                                    *)
(***************************************************************************)

\* The remediations an error message lists
Remediations(error) ==
    IF error = NoBuildTools
    THEN {"Use a pre-built image from Docker Hub or GHCR",
          "Provide a Kubernetes manifest or docker-compose file",
          "Use the Quick Deploy with an existing image"}
    ELSE {}

\* C21: a deploy that must build and finds no build tool is answered with an
\* error that lists the three alternatives (pre-built image, manifest or compose
\* file, quick deploy), and no call of the request has declared an object, the
\* namespace included.
C21_MustBuildDeclaresNothing ==
    pc = "idle" /\ resp # NoResponse /\ resp.error = NoBuildTools =>
        /\ ~resp.success
        /\ Cardinality(Remediations(resp.error)) = 3
        /\ \A i \in DOMAIN log : ~log[i].success


(***************************************************************************)
(* delete_application                                                      *)
(***************************************************************************)

\* Most requests in one behaviour of an application's life
MaxRequests == 3

DeleteRequest(name, namespace) ==
    [handler |-> "delete", name |-> name, namespace |-> namespace]

\* The outcomes of kubectl delete of an object
DeleteResults(cl, key) ==
    (IF Stored(cl, key) # {} THEN {Success} ELSE {Failure("not found")}) \cup Faults

Delete(cl, key) == {o \in cl : Key(o) # key}

DeleteReceive(r) ==
    /\ pc = "idle"
    /\ submissions < MaxRequests
    /\ submissions' = submissions + 1
    /\ req' = r
    /\ log' = <<>>
    /\ pc' = "delete_deployment"
    /\ local' = [result |-> Success]
    /\ resp' = NoResponse
    /\ UNCHANGED <<call, ret, waiting, cluster, faults, history>>

\* Mutant: a failed deletion ends the request
DeleteStep_Aborting(step, key, next) ==
    /\ pc = step
    /\ \E result \in DeleteResults(cluster, key) :
          /\ cluster' = IF result.success THEN Delete(cluster, key) ELSE cluster
          /\ Called(step, result)
          /\ local' = IF step = "delete_deployment" THEN [result |-> result] ELSE local
          /\ pc' = IF result.success THEN next ELSE "delete_respond"
    /\ UNCHANGED <<call, ret, waiting, req, resp, submissions, history>>

\* One kubectl delete; only the result of the first is kept
DeleteStep(step, key, next) ==
    /\ pc = step
    /\ \E result \in DeleteResults(cluster, key) :
          /\ cluster' = IF result.success THEN Delete(cluster, key) ELSE cluster
          /\ Called(step, result)
          /\ local' = IF step = "delete_deployment" THEN [result |-> result] ELSE local
    /\ pc' = next
    /\ UNCHANGED <<call, ret, waiting, req, resp, submissions, history>>

DeleteDeployment ==
    DeleteStep("delete_deployment", <<"Deployment", req.name, req.namespace>>,
               "delete_service")

DeleteService ==
    DeleteStep("delete_service", <<"Service", req.name, req.namespace>>,
               "delete_virtualservice")

DeleteVirtualService ==
    DeleteStep("delete_virtualservice", <<"VirtualService", req.name, "istio-system">>,
               "delete_pvc")

DeletePvc ==
    DeleteStep("delete_pvc",
               <<"PersistentVolumeClaim", req.name \o "-data", req.namespace>>,
               "delete_secret")

DeleteMinioSecret ==
    DeleteStep("delete_secret", <<"Secret", req.name \o "-minio", req.namespace>>,
               "delete_respond")

DeleteRespond ==
    /\ pc = "delete_respond"
    /\ Answer(req, Response(200, local.result.success, "", "", NoCredentials), cluster)
    /\ UNCHANGED <<call, ret, waiting, cluster, req, log, faults, submissions>>

(***************************************************************************)
(* The life of an application: deployed, deployed elsewhere, deleted       *)
(***************************************************************************)

LifecycleRequests ==
    {SmartRequest("web", ns, [type |-> "manifest", content |-> "k8s.yaml"], i, "user") :
        ns \in Namespaces,
        i \in {NoIntegrations, AllIntegrations, [NoIntegrations EXCEPT !.ingress = TRUE]}}

DeleteRequests == {DeleteRequest("web", ns) : ns \in Namespaces}

LifecycleDeploy(r) ==
    /\ submissions < MaxRequests
    /\ SmartDeploy(r)

NextLifecycle ==
    \/ \E r \in LifecycleRequests : LifecycleDeploy(r)
    \/ \E r \in DeleteRequests : DeleteReceive(r)
    \/ EnsureNamespace
    \/ SmartApplyContent
    \/ SmartCreatePvc
    \/ SmartPatchStorage
    \/ SmartMinioSecret
    \/ SmartPatchMinio
    \/ SmartIngress
    \/ SmartKeycloak
    \/ SmartFirewalld
    \/ SmartIstioDestinationRule
    \/ SmartIstioPeerAuthentication
    \/ SmartCredentials
    \/ SmartStoreCredentials
    \/ SmartRespond
    \/ DeleteDeployment
    \/ DeleteService
    \/ DeleteVirtualService
    \/ DeletePvc
    \/ DeleteMinioSecret
    \/ DeleteRespond

SpecLifecycle == Init /\ [][NextLifecycle]_vars

\* The objects delete(name, namespace) names, in the order of its text
DeleteTargets(r) ==
    <<[step |-> "delete_deployment", key |-> <<"Deployment", r.name, r.namespace>>],
      [step |-> "delete_service", key |-> <<"Service", r.name, r.namespace>>],
      [step |-> "delete_virtualservice", key |-> <<"VirtualService", r.name, "istio-system">>],
      [step |-> "delete_pvc",
       key |-> <<"PersistentVolumeClaim", r.name \o "-data", r.namespace>>],
      [step |-> "delete_secret", key |-> <<"Secret", r.name \o "-minio", r.namespace>>]>>

\* C22: an answered delete(name, namespace) has issued the five deletions
\* (workload, service, route, claim, object-storage secret), each whatever the
\* result of the ones before; the ones that succeeded left no such object, and
\* the answer reports success exactly when the workload deletion succeeded.
C22_DeleteAttemptsAll ==
    pc = "idle" /\ req.handler = "delete" =>
        /\ Len(log) = Len(DeleteTargets(req))
        /\ \A i \in DOMAIN log :
              /\ log[i].step = DeleteTargets(req)[i].step
              /\ log[i].success => Stored(cluster, DeleteTargets(req)[i].key) = {}
        /\ resp.success = log[1].success

\* A deletion failed and a later one removed its object
C22_Witness ==
    /\ pc = "idle"
    /\ req.handler = "delete"
    /\ Len(log) = 5
    /\ ~log[1].success
    /\ ~resp.success
    /\ \E i \in 2..5 : log[i].success


\* The objects stored when the i-th answered request arrived
ClusterBefore(i) == IF i = 1 THEN InitialCluster ELSE history[i - 1].cluster

\* A deploy answered with success and the delete of the same application in the
\* same namespace answered with success right after it
DeployThenDelete ==
    {i \in DOMAIN history :
        /\ i > 1
        /\ history[i].req.handler = "delete"
        /\ history[i].resp.success
        /\ history[i - 1].req.handler = "smart"
        /\ history[i - 1].resp.success
        /\ history[i - 1].req.name = history[i].req.name
        /\ history[i - 1].req.namespace = history[i].req.namespace}

\* C29: after a deploy and the delete of the same name and namespace, with no
\* upstream fault, no object the deploy created for the application is still
\* stored (the namespace apart): no workload, service, route, claim or secret,
\* no mesh traffic policy, no authorization policy, no credential record.
C29_DeleteLeavesNothing ==
    faults = 0 =>
        \A i \in DeployThenDelete :
            \A o \in history[i].cluster :
                o.kind # "Namespace" => Stored(ClusterBefore(i - 1), Key(o)) # {}

\* The objects of the application `name` of `namespace`: the ones stored in the
\* namespace under the application's names, its route and its credential record
ObjectsOf(cl, name, namespace) ==
    {o \in cl :
        \/ /\ o.namespace = namespace
           /\ o.name \in {name, name \o "-data", name \o "-minio", name \o "-auth"}
        \/ /\ o.kind = "VirtualService"
           /\ o.spec.host = name \o "." \o namespace \o ".svc.cluster.local"
        \/ /\ o.kind = "Secret"
           /\ o.name = "app-creds-" \o name
           /\ o.labels["siab.local/app-namespace"] = namespace}

\* C30: a deploy or a delete for a name in one namespace leaves every object of
\* the application of that name in another namespace as it was, its route too.
C30_OtherNamespaceUntouched ==
    \A i \in DOMAIN history : \A ns2 \in Namespaces :
        history[i].req.namespace # ns2 =>
            ObjectsOf(ClusterBefore(i), history[i].req.name, ns2) \subseteq history[i].cluster


\* The place of a call in the fixed order of the deploy steps (0: not one of them)
OrderOf(step) ==
    CASE step = "ensure_namespace" -> 1
      [] step \in {"apply_content", "apply_compose", "apply_built", "helm_install"} -> 2
      [] step \in {"create_pvc", "patch_storage"} -> 3
      [] step \in {"minio_secret", "patch_minio"} -> 4
      [] step \in {"ingress", "compose_routes"} -> 5
      [] step \in {"istio_dr", "istio_pa"} -> 6
      [] step = "keycloak" -> 7
      [] step = "store_credentials" -> 9
      [] OTHER -> 0

\* C23: the calls of a deploy come in the fixed order: namespace, workload and
\* service, storage claim and mount, object-storage secret and patch, exposure
\* route, mesh traffic policy, authorization policy, credentials, credential
\* persistence; no call of a later step comes before a call of an earlier one.
C23_FixedOrder ==
    req.handler = "smart" =>
        \A i, j \in DOMAIN log :
            i < j /\ OrderOf(log[i].step) # 0 /\ OrderOf(log[j].step) # 0 =>
                OrderOf(log[i].step) <= OrderOf(log[j].step)


\* The route candidates of the compose text of a request
RouteCandidates(r) ==
    parse_docker_compose("mapping", ComposeContent(r.content), r.name).services_info

\* The first requests of a behaviour that were compose deploys with exposure
\* through a gateway and were answered with success
ExposedComposeDeploys ==
    {i \in DOMAIN history :
        /\ i = 1
        /\ history[i].req.handler = "smart"
        /\ history[i].req.type = "compose"
        /\ history[i].req.integrations.ingress
        /\ history[i].req.gateway # "internal"
        /\ history[i].resp.success}

RoutesOf(cl, service_name) ==
    {o \in cl : o.kind = "VirtualService" /\ o.name = service_name}

\* C25: of the route candidates of a compose translation the first declared
\* service is primary and no other is; after a deploy with exposure and no
\* upstream fault the primary candidate is routed at <app name>.<domain> (or
\* the hostname of the request) and every other at <service name>.<domain>.
C25_PrimaryRoute ==
    /\ pc \in {"apply_compose", "compose_routes"} =>
          \A k \in DOMAIN local.services_info :
              local.services_info[k].is_primary
                  <=> local.services_info[k].name = ComposeContent(req.content)[1].name
    /\ faults = 0 =>
          \A i \in ExposedComposeDeploys :
              LET r == history[i].req
                  info == RouteCandidates(r)
              IN \A k \in DOMAIN info :
                    /\ RoutesOf(history[i].cluster, info[k].name) # {}
                    /\ \A o \in RoutesOf(history[i].cluster, info[k].name) :
                          o.spec.hosts = IF info[k].is_primary THEN HostnameOf(r)
                                         ELSE info[k].name \o "." \o SIAB_DOMAIN


\* The ports the cluster service object of a service exposes
ExposedPorts(cl, service_name, namespace) ==
    UNION {{o.spec.ports[p].port : p \in DOMAIN o.spec.ports} :
              o \in {x \in cl : x.kind = "Service" /\ x.name = service_name
                                  /\ x.namespace = namespace}}

\* C27: after a smart deploy of compose input with exposure, and no upstream
\* fault, the route stored for each routed service targets a port its cluster
\* service object exposes (the published port): no later step of the deploy has
\* overwritten the route with another port.
C27_RouteTargetsServicePort ==
    faults = 0 =>
        \A i \in ExposedComposeDeploys :
            LET r == history[i].req
                info == RouteCandidates(r)
            IN \A k \in DOMAIN info :
                  \A o \in RoutesOf(history[i].cluster, info[k].name) :
                      o.spec.port \in ExposedPorts(history[i].cluster, info[k].name,
                                                   r.namespace)

\* The calls that declare a route
RouteSteps == {"ingress", "compose_routes", "quick_ingress"}

\* C28: a deploy answers with an access URL only when a call of the request
\* declared a route with success and a stored route binds the URL's hostname;
\* for the exposure tier internal no route is declared and no access URL is
\* given, and the request is not failed for it.
C28_AccessUrlHasRoute ==
    pc = "idle" /\ resp # NoResponse =>
        /\ resp.access_url # "" =>
              /\ \E i \in DOMAIN log : log[i].step \in RouteSteps /\ log[i].success
              /\ \E o \in cluster :
                    /\ o.kind = "VirtualService"
                    /\ "https://" \o o.spec.hosts = resp.access_url
        /\ req.handler \in {"smart", "quick"} /\ req.gateway = "internal" /\ resp.success =>
              /\ \A i \in DOMAIN log : log[i].step \notin RouteSteps
              /\ resp.access_url = ""


\* The resources the compose endpoint is to declare for a request
Generated(r) ==
    parse_docker_compose("mapping", ComposeContent(r.compose), "default").manifests

ComposeDeclarations == SelectSeq(log, LAMBDA e : e.step = "compose_loop")

\* C26: the compose endpoint, for a text with N translatable services, ensures
\* the namespace, declares each of the 2N generated resources into the namespace
\* of the request, and answers with success exactly when every declaration
\* succeeded.
C26_ComposeEndpointDeclaresAll ==
    /\ pc = "idle"
    /\ req.handler = "compose"
    /\ req.compose # ""
    /\ ~parse_docker_compose("mapping", ComposeContent(req.compose), "default").raised
    => /\ \E i \in DOMAIN log : log[i].step = "ensure_namespace"
       /\ Len(ComposeDeclarations) = Len(Generated(req))
       /\ resp.success <=> \A i \in DOMAIN ComposeDeclarations : ComposeDeclarations[i].success
       /\ resp.success =>
             \A k \in DOMAIN Generated(req) :
                 Stored(cluster, <<Generated(req)[k].kind, Generated(req)[k].name,
                                   req.namespace>>) # {}


(***************************************************************************)
(* Two requests at a time: the server runs each handler in its own thread  *)
(***************************************************************************)

\* What a thread carries: where its handler stands and the handler's variables
Context == [pc |-> pc, req |-> req, local |-> local, log |-> log, resp |-> resp]

IdleThread ==
    [pc |-> "idle", req |-> NoRequest, local |-> NoLocals, log |-> <<>>,
     resp |-> NoResponse]

ConcurrentRequests ==
    {SmartRequest(n, ns, src, i, "user") :
        n \in {"shop", "blog"}, ns \in Namespaces,
        src \in {[type |-> "manifest", content |-> "k8s.yaml"],
                  [type |-> "compose", content |-> "docker-compose.yml"],
                  [type |-> "compose", content |-> "docker-compose.build.yml"]},
        i \in {NoIntegrations, [AllIntegrations EXCEPT !.generate_credentials = FALSE]}}

\* The names of the applications the threads have been asked to deploy
NamesUnderWay ==
    {c.req.name : c \in {x \in {Context} \cup {waiting[i] : i \in DOMAIN waiting} :
                              x.req # NoRequest}}

\* A request for another application arrives at the running thread
ConcurrentDeploy(r) ==
    /\ submissions < Len(waiting) + 1
    /\ r.name \notin NamesUnderWay
    /\ SmartDeploy(r)

\* Between two upstream calls the scheduler may run another thread
Switch ==
    /\ \E i \in DOMAIN waiting :
          /\ pc' = waiting[i].pc
          /\ req' = waiting[i].req
          /\ local' = waiting[i].local
          /\ log' = waiting[i].log
          /\ resp' = waiting[i].resp
          /\ waiting' = [waiting EXCEPT ![i] = Context]
    /\ UNCHANGED <<call, ret, cluster, faults, submissions, history>>

\* Two threads, and a control plane that serves every call
InitConcurrent ==
    /\ call = NoCall
    /\ ret = Pending
    /\ cluster = InitialCluster
    /\ pc = "idle"
    /\ req = NoRequest
    /\ local = NoLocals
    /\ resp = NoResponse
    /\ log = <<>>
    /\ faults = MaxFaults
    /\ submissions = 0
    /\ history = <<>>
    /\ waiting = <<IdleThread>>

NextConcurrent ==
    \/ \E r \in ConcurrentRequests : ConcurrentDeploy(r)
    \/ Switch
    \/ EnsureNamespace
    \/ SmartApplyContent
    \/ SmartParseCompose
    \/ SmartApplyCompose
    \/ SmartComposeRoute
    \/ SmartCreatePvc
    \/ SmartPatchStorage
    \/ SmartMinioSecret
    \/ SmartPatchMinio
    \/ SmartIngress
    \/ SmartKeycloak
    \/ SmartFirewalld
    \/ SmartIstioDestinationRule
    \/ SmartIstioPeerAuthentication
    \/ SmartRespond

SpecConcurrent == InitConcurrent /\ [][NextConcurrent]_vars


\* One request served alone, with no upstream fault: its calls in order, each a
\* kubectl apply of some objects or a kubectl patch of the application's workload
Declare(objs) == [op |-> "apply", objs |-> objs]
Amend(key, fields) == [op |-> "patch", key |-> key, fields |-> fields]

Translation(r) == parse_docker_compose("mapping", ComposeContent(r.content), r.name)

Routed(r) == r.integrations.ingress /\ r.gateway # "internal"

PrimaryCalls(r) ==
    IF r.type = "compose"
    THEN LET manifests == Translation(r).manifests
             info == Translation(r).services_info
         IN [k \in DOMAIN manifests |-> Declare(<<Stamp(manifests[k], r.namespace)>>)]
            \o (IF Routed(r)
                THEN [k \in DOMAIN info |->
                         Declare(<<VirtualService(
                                     r.namespace, info[k].name, info[k].port,
                                     IF info[k].is_primary THEN HostnameOf(r)
                                     ELSE info[k].name \o "." \o SIAB_DOMAIN,
                                     r.gateway)>>)]
                ELSE <<>>)
    ELSE <<Declare(ManifestObjects(r))>>

MainService(r) ==
    IF r.type = "compose" /\ Translation(r).manifests # <<>>
    THEN Translation(r).manifests[1].name ELSE r.name

IntegrationCalls(r) ==
    LET workload == <<"Deployment", r.name, r.namespace>> IN
    (IF r.integrations.storage # ""
     THEN <<Declare(<<PvcManifest(r.name, r.namespace, r.integrations.storage)>>),
            Amend(workload, StorageMount(r.name))>>
     ELSE <<>>)
    \o (IF r.integrations.minio
        THEN <<Declare(<<MinioSecret(r.name, r.namespace, MinioRoot(TRUE).user,
                                     MinioRoot(TRUE).password)>>),
               Amend(workload, MinioEnv(r.name))>>
        ELSE <<>>)
    \o (IF Routed(r)
        THEN <<Declare(<<VirtualService(r.namespace, MainService(r), 80, HostnameOf(r),
                                        r.gateway)>>)>>
        ELSE <<>>)
    \o (IF r.integrations.keycloak
        THEN <<Declare(<<AuthorizationPolicy(r.name, r.namespace)>>)>> ELSE <<>>)
    \o (IF r.integrations.istio
        THEN <<Declare(<<DestinationRule(r.name, r.namespace)>>),
               Declare(<<PeerAuthentication(r.name, r.namespace)>>)>>
        ELSE <<>>)

Calls(r) ==
    <<Declare(<<NamespaceManifest(r.namespace)>>)>> \o PrimaryCalls(r) \o IntegrationCalls(r)

RECURSIVE Served(_, _)
Served(cl, calls) ==
    IF calls = <<>> THEN cl
    ELSE LET c == Head(calls) IN
         Served(IF c.op = "patch" THEN Patch(cl, c.key, c.fields)
                ELSE IF \A i \in DOMAIN c.objs : CanStore(cl, c.objs[i])
                THEN ApplyAll(cl, c.objs) ELSE cl,
                Tail(calls))

\* The objects stored after r1 and then r2 were served one after the other
OneAfterTheOther(r1, r2) == Served(Served(InitialCluster, Calls(r1)), Calls(r2))

\* The objects a request writes, the namespace apart
Written(r) ==
    UNION {IF c.op = "patch" THEN {c.key} ELSE {Key(c.objs[i]) : i \in DOMAIN c.objs} :
              c \in {Calls(r)[k] : k \in DOMAIN Calls(r)}}
    \ {<<"Namespace", r.namespace, NoNamespace>>}

\* The names a request gives to what it generates: the application's name and,
\* for compose input, the names of the services
NamesOf(r) ==
    {r.name} \cup (IF r.type = "compose"
                   THEN {ComposeContent(r.content)[k].name :
                            k \in DOMAIN ComposeContent(r.content)}
                   ELSE {})

\* Both requests of the behaviour were answered with success
BothDeployed ==
    /\ Len(history) = 2
    /\ history[1].resp.success
    /\ history[2].resp.success

=============================================================================
